---- MODULE Spec2Model ----
(***************************************************************************)
(* Authorization gate, admission control and runtime caches of zhenxun_bot *)
(*                                                                         *)
(*   services/message_load.py            overload flag                     *)
(*   builtin_plugins/hooks/auth_hook.py  preprocessor, deferred queue      *)
(*   builtin_plugins/hooks/auth_checker.py  auth pipeline, breakers        *)
(*   services/cache/runtime_cache.py     entity caches, replication        *)
(*                                                                         *)
(* Each subsystem has its own next-state relation over the shared          *)
(* variables; the specifications are SpecLoad, SpecGate, SpecBreaker,      *)
(* SpecBan and SpecSync.                                                   *)
(***************************************************************************)
EXTENDS Integers, Sequences, FiniteSets, TLC

(***************************************************************************)
(* Bounds of the model                                                     *)
(***************************************************************************)
\* last tick of the monotonic clock (time.monotonic(), one tick = 1 s)
MaxMono == 7
\* (event, matcher) pairs that arrive at the run_preprocessor hook
NumTasks == 3
\* asyncio.Queue(maxsize=_AUTH_QUEUE_MAXSIZE); 200 in the source
AUTH_QUEUE_MAXSIZE == 2
\* _AUTH_QUEUE_HIGH_WATER; 160 in the source
AUTH_QUEUE_HIGH_WATER == 1

(***************************************************************************)
(* Program constants                                                       *)
(***************************************************************************)
\* _AUTH_OVERLOAD_WINDOW = 5.0
AUTH_OVERLOAD_WINDOW == 5

None == "None"

Max(a, b) == IF a >= b THEN a ELSE b
Min(a, b) == IF a <= b THEN a ELSE b
Range(f) == {f[x] : x \in DOMAIN f}

VARIABLES
    mono,             \* time.monotonic()
    OVERLOAD_UNTIL,   \* message_load._OVERLOAD_UNTIL
    sigMax,           \* history: latest deadline any signal_overload call asked for
    sigLast           \* history: [at, duration] of the last signal_overload call

loadVars == <<mono, OVERLOAD_UNTIL, sigMax, sigLast>>

VARIABLES
    clock,        \* time.time() in ticks
    banCache,     \* per process: BanMemoryCache class attributes
    removeTasks,  \* per process: BanMemoryCache._remove_tasks, as the keys to remove
    banDb,        \* storage: BanConsole rows by (user_id, group_id)
    inbox,        \* per process: published messages not yet handled
    saves,        \* ban rows saved so far
    last          \* the message just handled: action, process, key, storage reads,
                  \* and whether an unexpired negative entry hid the key before

banVars == <<clock, banCache, removeTasks, banDb, inbox, saves, last>>

VARIABLES
    wall,              \* time.time() as the breaker code reads it
    CIRCUIT_BREAKERS,  \* auth_checker.CIRCUIT_BREAKERS: per stage name
    running,           \* per stage: calls inside with_timeout, as a bag of start times
    trail              \* history per stage, see NoTrail

breakerVars == <<wall, CIRCUIT_BREAKERS, running, trail>>

VARIABLES
    cacheReady,   \* runtime_cache.is_cache_ready()
    pc,           \* per (event, module): "none", "ignored", "passed", "ran"
    AUTH_QUEUE,   \* auth_hook._AUTH_QUEUE: the pairs waiting for the full check
    worker,       \* per _auth_worker: Some(pair) while it runs auth() on it, or Nil
    EVENT_CACHE,  \* auth_checker.EVENT_CACHE: per event
    verdict,      \* per pair: how auth() ended: "none", "allow", "deny", "exempt"
    qlenAt,       \* history per pair: qsize() when put_nowait was tried, or -1
    dropAt        \* history per pair: time.monotonic() of the drop, or -1

gateVars == <<cacheReady, pc, AUTH_QUEUE, worker, EVENT_CACHE, verdict, qlenAt,
              dropAt>>

VARIABLES
    snapshots,    \* the bot, group, level and plugin-limit caches of one process
    lastSync,     \* history: Some(the upsert message handled last), or Nil
    syncSteps,    \* history: the number of steps the caches have taken
    getHist       \* history, per cache: the reads of a missing key, see NoGets

syncVars == <<snapshots, lastSync, syncSteps, getHist>>

VARIABLES
    limiters,     \* the limiters of LimitManager.cd_limit, block_limit, count_limit
    limRunning,   \* history: per invocation, the handlers running after an allow
    allowedAt,    \* history: per <<module, key>>, when a rule last let a call pass
    limLast,      \* history: the last evaluation with a limit stage, see NoLimit
    limCalls      \* history: the number of evaluations made

limitVars == <<limiters, limRunning, allowedAt, limLast, limCalls>>

VARIABLES
    gold,         \* UserConsole.gold of the acting user
    polLast       \* history: the evaluation made last and its outcome, or Nil

policyVars == <<gold, polLast>>

VARIABLES
    HOOKS_SEMAPHORE,     \* asyncio.Semaphore: value, waiters, waiters woken
    HOOKS_ACTIVE_COUNT,  \* the counter of evaluations inside the hooks section
    hookPc,              \* where each evaluation stands
    hookRounds,          \* evaluations a worker has finished
    hookWaited           \* history: the evaluation inside had to wait

hooksVars == <<HOOKS_SEMAPHORE, HOOKS_ACTIVE_COUNT, hookPc, hookRounds, hookWaited>>

VARIABLES
    auth_result_cache,  \* event_cache["auth_result"] of one event
    memoPc,             \* where each evaluation of the event stands
    memoRun,            \* per evaluation: its cost_gold and what its hooks raised
    memoOut,            \* per evaluation: its outcome
    memoEffects         \* history: the side effects made for each module

memoVars == <<auth_result_cache, memoPc, memoRun, memoOut, memoEffects>>

VARIABLES
    bootCache,          \* per entity cache: what it holds, see ColdCache
    bootLock,           \* per entity cache: its asyncio.Lock, holder and waiters
    bootPc,             \* where each task stands
    initIdx,            \* the cache _init_runtime_cache has come to
    CACHE_READY_EVENT,  \* runtime_cache._CACHE_READY_EVENT.is_set()
    storeVer,           \* storage: the version of the rows
    bootHist            \* history: loads asked for by ensure_loaded, rounds of
                        \* the refresh loop and the refresh that ended last

bootVars == <<bootCache, bootLock, bootPc, initIdx, CACHE_READY_EVENT, storeVer,
              bootHist>>

VARIABLES
    known_users,   \* AuthStateCache._known_users
    user_queue,    \* AuthService._user_queue
    userBatch,     \* _user_creation_loop: Some(batch being inserted), or Nil
    userDb,        \* storage: UserConsole rows, user_id -> uid
    userHist       \* history: puts per user id, the largest batch taken and
                   \* the ids a failed insert has dropped

userVars == <<known_users, user_queue, userBatch, userDb, userHist>>

VARIABLES
    banned_users,   \* AuthStateCache._banned_users: user id -> expire time
    banned_groups,  \* AuthStateCache._banned_groups: group id -> expire time
    stateRows,      \* storage: BanConsole rows by (user_id, group_id)
    stateSaves      \* history: rows saved or deleted so far

stateVars == <<banned_users, banned_groups, stateRows, stateSaves>>

VARIABLES
    echoCaches,   \* per process: its bot, group, level, plugin-limit and ban cache
    channel,      \* per subscriber: the messages of the channel it has not handled
    limitDb,      \* storage: PluginLimit rows by id
    echoSent,     \* publish_event calls so far
    echoLast      \* history: what the last step was (a local mutation, a
                  \* received event applied, or none of them) and the number
                  \* of events it published

echoVars == <<echoCaches, channel, limitDb, echoSent, echoLast>>

\* the variables of the parts added last
lateVars == <<bootVars, userVars, stateVars, echoVars>>
earlyVars == <<loadVars, banVars, breakerVars, gateVars, syncVars, limitVars,
               policyVars, hooksVars, memoVars>>
notBootVars == <<userVars, stateVars, echoVars>>
notUserVars == <<bootVars, stateVars, echoVars>>
notStateVars == <<bootVars, userVars, echoVars>>
notEchoVars == <<bootVars, userVars, stateVars>>

\* the variables an action of one part leaves alone
notLoadVars == <<banVars, breakerVars, gateVars, syncVars, limitVars, policyVars, hooksVars, memoVars, lateVars>>
notBanVars == <<loadVars, breakerVars, gateVars, syncVars, limitVars, policyVars, hooksVars, memoVars, lateVars>>
notBreakerVars == <<loadVars, banVars, gateVars, syncVars, limitVars, policyVars, hooksVars, memoVars, lateVars>>


(***************************************************************************)
(* services/message_load.py                                                *)
(***************************************************************************)
\* the value of _OVERLOAD_UNTIL after signal_overload(duration) at time now
signal_overload_bug(until0, now, duration) ==
    IF duration <= 0 THEN until0 ELSE now + duration

signal_overload(until0, now, duration) ==
    IF duration <= 0 THEN until0
    ELSE LET until == now + duration
         IN  IF until > until0 THEN until ELSE until0

is_overloaded_bug(until0, now) == now <= until0

is_overloaded(until0, now) == now < until0

should_pause_tasks(until0, now) == is_overloaded(until0, now)

\* durations a caller may pass to signal_overload (0: the early return)
Durations == {0, 2, AUTH_OVERLOAD_WINDOW}

InitLoad ==
    /\ mono = 0
    /\ OVERLOAD_UNTIL = 0
    /\ sigMax = 0
    /\ sigLast = [at |-> -1, duration |-> 0]

TickMono ==
    /\ mono < MaxMono
    /\ mono' = mono + 1
    /\ UNCHANGED <<OVERLOAD_UNTIL, sigMax, sigLast, notLoadVars>>

SignalOverload(d) ==
    /\ OVERLOAD_UNTIL' = signal_overload(OVERLOAD_UNTIL, mono, d)
    /\ sigMax' = IF d > 0 THEN Max(sigMax, mono + d) ELSE sigMax
    /\ sigLast' = IF d > 0 THEN [at |-> mono, duration |-> d] ELSE sigLast
    /\ UNCHANGED <<mono, notLoadVars>>

(***************************************************************************)
(* services/cache/runtime_cache.py: BanEntry and BanMemoryCache            *)
(*                                                                         *)
(* time.time() is the variable clock, counted in ticks of 1/TicksPerSec    *)
(* second; ban_time, duration and the TTLs are whole seconds as in the     *)
(* source.  A cache is a record of the class attributes                    *)
(*   by_user, by_group, by_user_group, negative, loaded                    *)
(* whose maps are functions on the keys present.                           *)
(***************************************************************************)
\* clock ticks per second
TicksPerSec == 2
\* BAN_MEM_NEGATIVE_TTL default
BAN_MEM_NEGATIVE_TTL == 1

\* int(x) of Python for x = n / TicksPerSec: truncation toward zero
IntOfTicks(n) ==
    IF n >= 0 THEN n \div TicksPerSec ELSE -((-n) \div TicksPerSec)

MapPut(f, k, v) == [x \in (DOMAIN f) \cup {k} |-> IF x = k THEN v ELSE f[x]]
MapPop(f, k) == [x \in (DOMAIN f) \ {k} |-> f[x]]
EmptyMap == <<>>

\* Optional values: <<>> is Python's None, <<v>> a value v
Nil == <<>>
Some(v) == <<v>>
MapGet(f, k) == IF k \in DOMAIN f THEN Some(f[k]) ELSE Nil

\* BanEntry(user_id, group_id, ban_level, ban_time, duration, expire_at)
BanEntry(u, g, lvl, bt, dur) ==
    [user_id |-> u, group_id |-> g, ban_level |-> lvl, ban_time |-> bt,
     duration |-> dur,
     expire_at |-> IF dur = -1 THEN Nil ELSE Some(bt + dur)]

\* a variant that treats a record as banned for one more second
remaining_inclusive(entry, now) ==
    IF entry.duration = -1 THEN -1
    ELSE LET left == IntOfTicks((entry.ban_time + entry.duration) * TicksPerSec - now)
         IN  IF left >= -1 THEN left + 1 ELSE 0

\* BanEntry.remaining
remaining(entry, now) ==
    IF entry.duration = -1 THEN -1
    ELSE LET left == IntOfTicks((entry.ban_time + entry.duration) * TicksPerSec - now)
         IN  IF left > 0 THEN left ELSE 0

\* BanEntry.to_payload
ban_to_payload(entry) ==
    [user_id |-> entry.user_id, group_id |-> entry.group_id,
     ban_level |-> entry.ban_level, ban_time |-> entry.ban_time,
     duration |-> entry.duration, expire_at |-> entry.expire_at]

\* truthiness of an id: None and "" are falsy
Truthy(x) == x # None /\ x # ""

\* BanEntry.from_payload
ban_from_payload(payload) ==
    LET ea == IF payload.expire_at = Nil /\ payload.duration # -1
              THEN Some(payload.ban_time + payload.duration)
              ELSE payload.expire_at
    IN  [user_id |-> IF Truthy(payload.user_id) THEN payload.user_id ELSE None,
         group_id |-> IF Truthy(payload.group_id) THEN payload.group_id ELSE None,
         ban_level |-> payload.ban_level, ban_time |-> payload.ban_time,
         duration |-> payload.duration, expire_at |-> ea]

\* BanMemoryCache._normalize_id (ids of the model carry no surrounding blanks)
normalize_id(v) == IF v = None \/ v = "" THEN None ELSE v

\* BanMemoryCache._neg_key
neg_key(u, g) == <<normalize_id(u), normalize_id(g)>>

EmptyBanCache ==
    [by_user |-> EmptyMap, by_group |-> EmptyMap, by_user_group |-> EmptyMap,
     negative |-> EmptyMap, loaded |-> FALSE]

\* BanMemoryCache._is_negative: <<result, negative map afterwards>>
ban_is_negative(c, key, now) ==
    IF key \notin DOMAIN c.negative THEN <<FALSE, c.negative>>
    ELSE IF c.negative[key] <= now THEN <<FALSE, MapPop(c.negative, key)>>
    ELSE <<TRUE, c.negative>>

\* BanMemoryCache._mark_negative
ban_mark_negative(c, key, now) ==
    IF BAN_MEM_NEGATIVE_TTL <= 0 THEN c.negative
    ELSE MapPut(c.negative, key, now + BAN_MEM_NEGATIVE_TTL * TicksPerSec)

\* a lookup that prefers the user-only record
get_entry_user_first(c, u0, g0) ==
    LET u == normalize_id(u0)
        g == normalize_id(g0)
    IN  IF u # None /\ g # None
        THEN IF u \in DOMAIN c.by_user THEN Some(c.by_user[u])
             ELSE MapGet(c.by_user_group, <<u, g>>)
        ELSE IF u # None THEN MapGet(c.by_user, u)
        ELSE IF g # None THEN MapGet(c.by_group, g)
        ELSE Nil

\* BanMemoryCache._get_entry
get_entry(c, u0, g0) ==
    LET u == normalize_id(u0)
        g == normalize_id(g0)
    IN  IF u # None /\ g # None
        THEN IF <<u, g>> \in DOMAIN c.by_user_group
             THEN Some(c.by_user_group[<<u, g>>])
             ELSE MapGet(c.by_user, u)
        ELSE IF u # None THEN MapGet(c.by_user, u)
        ELSE IF g # None THEN MapGet(c.by_group, g)
        ELSE Nil

\* The part is_banned, remaining_time and check_ban_level share:
\*   kind     "unloaded", "absent" (negative hit or no record), "expired", "found"
\*   negative the negative map afterwards
\*   remove   Some(<<user_id, group_id>>) of the removal task created, or Nil
\*   entry    Some(record the read was answered from), or Nil
BanLookup(c, u, g, now) ==
    IF ~c.loaded
    THEN [kind |-> "unloaded", negative |-> c.negative, remove |-> Nil, entry |-> Nil]
    ELSE LET key == neg_key(u, g)
             neg == ban_is_negative(c, key, now)
             entry == get_entry(c, u, g)
         IN  IF neg[1]
             THEN [kind |-> "absent", negative |-> neg[2], remove |-> Nil,
                   entry |-> Nil]
             ELSE IF entry = Nil
             THEN [kind |-> "absent",
                   negative |-> ban_mark_negative([c EXCEPT !.negative = neg[2]],
                                                  key, now),
                   remove |-> Nil, entry |-> Nil]
             ELSE IF remaining(entry[1], now) = 0 /\ entry[1].duration # -1
             THEN [kind |-> "expired", negative |-> neg[2],
                   remove |-> Some(<<entry[1].user_id, entry[1].group_id>>),
                   entry |-> entry]
             ELSE [kind |-> "found", negative |-> neg[2], remove |-> Nil,
                   entry |-> entry]

\* a read that forgets to schedule the removal of an expired record
is_banned_no_removal(c, u, g, now) ==
    LET r == BanLookup(c, u, g, now)
    IN  [ret |-> r.kind = "found", negative |-> r.negative, remove |-> Nil,
         entry |-> r.entry]

\* BanMemoryCache.is_banned
is_banned(c, u, g, now) ==
    LET r == BanLookup(c, u, g, now)
    IN  [ret |-> r.kind = "found", negative |-> r.negative, remove |-> r.remove,
         entry |-> r.entry]

\* BanMemoryCache.remaining_time
remaining_time(c, u, g, now) ==
    LET r == BanLookup(c, u, g, now)
    IN  [ret |-> IF r.kind = "found" THEN remaining(r.entry[1], now) ELSE 0,
         negative |-> r.negative, remove |-> r.remove, entry |-> r.entry]

\* BanMemoryCache.check_ban_level
check_ban_level(c, u, g, level, now) ==
    LET r == BanLookup(c, u, g, now)
    IN  [ret |-> IF r.kind = "found" THEN r.entry[1].ban_level <= level ELSE FALSE,
         negative |-> r.negative, remove |-> r.remove, entry |-> r.entry]

\* the map an entry belongs to, written with the entry under its key
BanStore(c, entry) ==
    IF Truthy(entry.user_id) /\ Truthy(entry.group_id)
    THEN [c EXCEPT !.by_user_group =
              MapPut(@, <<entry.user_id, entry.group_id>>, entry)]
    ELSE IF Truthy(entry.user_id)
    THEN [c EXCEPT !.by_user = MapPut(@, entry.user_id, entry)]
    ELSE IF Truthy(entry.group_id)
    THEN [c EXCEPT !.by_group = MapPut(@, entry.group_id, entry)]
    ELSE c

\* an upsert that leaves the negative entries alone
ban_upsert_keep_negative(c, payload) == BanStore(c, ban_from_payload(payload))

\* BanMemoryCache.upsert_from_payload
ban_upsert_from_payload(c, payload) ==
    [BanStore(c, ban_from_payload(payload)) EXCEPT !.negative = EmptyMap]

\* BanMemoryCache._build_entry
build_entry(record) ==
    BanEntry(normalize_id(record.user_id), normalize_id(record.group_id),
             record.ban_level, record.ban_time, record.duration)

\* an upsert from a saved row that leaves the negative entries alone
ban_upsert_model_keep_negative(c, record) == BanStore(c, build_entry(record))

\* BanMemoryCache.upsert_from_model: the cache afterwards (the event published
\* is ban_to_payload(build_entry(record)))
ban_upsert_from_model(c, record) ==
    [BanStore(c, build_entry(record)) EXCEPT !.negative = EmptyMap]

\* a removal that leaves the record in place
remove_local_noop(c, u0, g0) == [c EXCEPT !.negative = EmptyMap]

\* BanMemoryCache._remove_local
remove_local(c, u0, g0) ==
    LET u == normalize_id(u0)
        g == normalize_id(g0)
        c1 == IF u # None /\ g # None
              THEN [c EXCEPT !.by_user_group = MapPop(@, <<u, g>>)]
              ELSE IF u # None THEN [c EXCEPT !.by_user = MapPop(@, u)]
              ELSE IF g # None THEN [c EXCEPT !.by_group = MapPop(@, g)]
              ELSE c
    IN  [c1 EXCEPT !.negative = EmptyMap]

(***************************************************************************)
(* Ban cache of two bot processes sharing one storage and one replication  *)
(* channel (RuntimeCacheSync over Redis pub/sub)                           *)
(***************************************************************************)
\* last tick of the wall clock
MaxClock == 3
\* saves of a ban row in one run
MaxSaves == 2
\* messages a subscriber's connection buffers; a message beyond it is lost
MaxInbox == 1

\* the processes whose caches are followed
Procs == {"B"}
\* the other processes on the channel: they save rows and publish
Peers == {"A"}
\* RuntimeCacheSync: INSTANCE_ID of a process
INSTANCE_ID(p) == p
\* the (user_id, group_id) pairs a ban row or a read may name
BanKeys == {<<"u1", None>>, <<None, "g1">>, <<"u1", "g1">>}
BanDurations == {-1, 1}

NoOp == [op |-> "none", proc |-> None, key |-> <<None, None>>, reads |-> 0,
         hadNeg |-> FALSE]

InitBan ==
    /\ clock = 0
    /\ banCache = [p \in Procs |-> EmptyBanCache]
    /\ removeTasks = [p \in Procs |-> {}]
    /\ banDb = EmptyMap
    /\ inbox = [p \in Procs |-> <<>>]
    /\ saves = 0
    /\ last = NoOp

\* RuntimeCacheSync.publish_event / _publish: every subscriber, the publisher
\* included, is sent the message; delivery is best effort
publish_event(boxes, src, cache_type, action, data) ==
    LET msg == [source |-> INSTANCE_ID(src), type |-> cache_type,
                action |-> action, data |-> data]
    IN  [q \in Procs |-> IF Len(boxes[q]) < MaxInbox
                         THEN Append(boxes[q], msg) ELSE boxes[q]]

\* the rows of storage that refresh keeps: not yet expired at now
LiveRows(db, now) ==
    {k \in DOMAIN db :
        LET e == build_entry(db[k])
        IN  ~(e.expire_at # Nil /\ e.expire_at[1] * TicksPerSec <= now)}

\* the three indexes of a set of entries
IndexEntries(es) ==
    [by_user |-> [u \in {e.user_id : e \in {x \in es : x.group_id = None}}
                    |-> CHOOSE e \in es : e.user_id = u /\ e.group_id = None],
     by_group |-> [g \in {e.group_id : e \in {x \in es : x.user_id = None}}
                    |-> CHOOSE e \in es : e.group_id = g /\ e.user_id = None],
     by_user_group |->
         [k \in {<<e.user_id, e.group_id>> :
                    e \in {x \in es : x.user_id # None /\ x.group_id # None}}
            |-> CHOOSE e \in es : <<e.user_id, e.group_id>> = k],
     negative |-> EmptyMap, loaded |-> TRUE]

\* a refresh that also loads expired rows
ban_refresh_keep_expired(c, db, now) ==
    IndexEntries({build_entry(db[k]) : k \in DOMAIN db})

\* a refresh that loads the rows only into a cache that was never loaded
ban_refresh_once(c, db, now) ==
    IF c.loaded THEN c
    ELSE IndexEntries({build_entry(db[k]) : k \in LiveRows(db, now)})

\* BanMemoryCache.refresh: the cache afterwards
ban_refresh(c, db, now) ==
    IndexEntries({build_entry(db[k]) : k \in LiveRows(db, now)})

\* the records a cache holds
BanEntries(c) == Range(c.by_user) \cup Range(c.by_group) \cup Range(c.by_user_group)

\* an expiry test that has no exception for the records without expire_at
ban_expired_by_time(entry, now) ==
    (entry.ban_time + entry.duration) * TicksPerSec <= now

\* the test of cleanup_expired: entry.expire_at is not None and
\* entry.expire_at <= now_ts
ban_expired(entry, now) ==
    entry.expire_at # Nil /\ entry.expire_at[1] * TicksPerSec <= now

\* BanMemoryCache.cleanup_expired: the cache afterwards
ban_cleanup_expired(c, now) ==
    IF \A e \in BanEntries(c) : ~ban_expired(e, now) THEN c
    ELSE [IndexEntries({e \in BanEntries(c) : ~ban_expired(e, now)})
              EXCEPT !.loaded = c.loaded]

\* BanMemoryCache.cleanup_expired(delete_db=True): the rows left in storage
ban_cleanup_rows(c, db, now) ==
    [k \in DOMAIN db \ {<<e.user_id, e.group_id>> :
                            e \in {x \in BanEntries(c) : ban_expired(x, now)}}
        |-> db[k]]

TickClock ==
    /\ clock < MaxClock
    /\ clock' = clock + 1
    /\ last' = NoOp
    /\ UNCHANGED <<banCache, removeTasks, banDb, inbox, saves, notBanVars>>

\* _init_runtime_cache / _refresh_loop: BanMemoryCache.refresh()
BanRefresh(p) ==
    /\ banCache' = [banCache EXCEPT ![p] = ban_refresh(@, banDb, clock)]
    /\ last' = [NoOp EXCEPT !.op = "refresh", !.proc = p]
    /\ UNCHANGED <<clock, removeTasks, banDb, inbox, saves, notBanVars>>

\* _cleanup_loop: BanMemoryCache.cleanup_expired(delete_db=True)
BanCleanup(p) ==
    /\ banCache' = [banCache EXCEPT ![p] = ban_cleanup_expired(@, clock)]
    /\ banDb' = ban_cleanup_rows(banCache[p], banDb, clock)
    /\ last' = [NoOp EXCEPT !.op = "cleanup", !.proc = p]
    /\ UNCHANGED <<clock, removeTasks, inbox, saves, notBanVars>>

\* a ban row is saved by process p and its post-save hook calls upsert_from_model
BanUpsertModel(p, k, dur) ==
    LET record == [user_id |-> k[1], group_id |-> k[2], ban_level |-> 5,
                   ban_time |-> clock \div TicksPerSec, duration |-> dur]
    IN  /\ saves < MaxSaves
        /\ saves' = saves + 1
        /\ banDb' = MapPut(banDb, k, record)
        /\ banCache' = [banCache EXCEPT ![p] = ban_upsert_from_model(@, record)]
        /\ inbox' = publish_event(inbox, p, "ban", "upsert",
                                  ban_to_payload(build_entry(record)))
        /\ last' = [op |-> "model_upsert", proc |-> p, key |-> k, reads |-> 0,
                    hadNeg |-> ban_is_negative(banCache[p], neg_key(k[1], k[2]),
                                               clock)[1]]
        /\ UNCHANGED <<clock, removeTasks, notBanVars>>

\* a ban row is saved by another process, whose post-save hook publishes it
PeerUpsertModel(src, k, dur) ==
    LET record == [user_id |-> k[1], group_id |-> k[2], ban_level |-> 5,
                   ban_time |-> clock \div TicksPerSec, duration |-> dur]
    IN  /\ saves < MaxSaves
        /\ saves' = saves + 1
        /\ banDb' = MapPut(banDb, k, record)
        /\ inbox' = publish_event(inbox, src, "ban", "upsert",
                                  ban_to_payload(build_entry(record)))
        /\ last' = NoOp
        /\ UNCHANGED <<clock, banCache, removeTasks, notBanVars>>

\* what a read leaves behind: the negative map and the removal task
ReadEffect(p, k, r, name) ==
    /\ banCache' = [banCache EXCEPT ![p].negative = r.negative]
    /\ removeTasks' = [removeTasks EXCEPT ![p] =
                          IF r.remove = Nil THEN @ ELSE @ \cup {r.remove[1]}]
    /\ last' = NoOp
    /\ UNCHANGED <<clock, banDb, inbox, saves, notBanVars>>

BanIsBanned(p, k) ==
    LET r == is_banned(banCache[p], k[1], k[2], clock)
    IN  /\ r.ret \in BOOLEAN
        /\ ReadEffect(p, k, r, "is_banned")

BanRemainingTime(p, k) ==
    LET r == remaining_time(banCache[p], k[1], k[2], clock)
    IN  /\ r.ret \in Int
        /\ ReadEffect(p, k, r, "remaining_time")

\* the task created by a read: BanMemoryCache.remove(user_id, group_id)
BanRemoveTask(p, k) ==
    /\ k \in removeTasks[p]
    /\ removeTasks' = [removeTasks EXCEPT ![p] = @ \ {k}]
    /\ banCache' = [banCache EXCEPT ![p] = remove_local(@, k[1], k[2])]
    /\ inbox' = publish_event(inbox, p, "ban", "delete",
                              [user_id |-> k[1], group_id |-> k[2]])
    /\ last' = [NoOp EXCEPT !.op = "remove", !.proc = p, !.key = k]
    /\ UNCHANGED <<clock, banDb, saves, notBanVars>>

\* BanMemoryCache.apply_sync_event: <<cache afterwards, storage reads made>>
ban_apply_sync_event(c, action, data, db, now) ==
    IF action = "upsert" THEN <<ban_upsert_from_payload(c, data), 0>>
    ELSE IF action = "delete"
    THEN <<remove_local(c, data.user_id, data.group_id), 0>>
    ELSE IF action = "refresh" THEN <<ban_refresh(c, db, now), 1>>
    ELSE <<c, 0>>

\* a handler that also applies the messages the process published itself
handle_message_no_source_check(p, c, msg, db, now) ==
    IF msg.type = "ban" THEN ban_apply_sync_event(c, msg.action, msg.data, db, now)
    ELSE <<c, 0>>

\* RuntimeCacheSync._handle_message, for the ban cache of process p
handle_message(p, c, msg, db, now) ==
    IF msg.source = INSTANCE_ID(p) THEN <<c, 0>>
    ELSE IF msg.type = "ban"
    THEN ban_apply_sync_event(c, msg.action, msg.data, db, now)
    ELSE <<c, 0>>

\* RuntimeCacheSync._listen_loop: the next message is handled
BanDeliver(p) ==
    /\ inbox[p] # <<>>
    /\ LET msg == Head(inbox[p])
           r == handle_message(p, banCache[p], msg, banDb, clock)
       IN  /\ banCache' = [banCache EXCEPT ![p] = r[1]]
           /\ last' = [op |-> IF msg.source = INSTANCE_ID(p) THEN "own_message"
                              ELSE msg.action,
                       proc |-> p,
                       key |-> <<msg.data.user_id, msg.data.group_id>>,
                       reads |-> r[2],
                       hadNeg |-> LET key == neg_key(msg.data.user_id,
                                                     msg.data.group_id)
                                  IN  ban_is_negative(banCache[p], key, clock)[1]]
    /\ inbox' = [inbox EXCEPT ![p] = Tail(@)]
    /\ UNCHANGED <<clock, removeTasks, banDb, saves, notBanVars>>

NextBan ==
    \/ TickClock
    \/ \E p \in Procs : BanRefresh(p)
    \/ \E p \in Procs : BanCleanup(p)
    \/ \E p \in Procs, k \in BanKeys, dur \in BanDurations : BanUpsertModel(p, k, dur)
    \/ \E p \in Peers, k \in BanKeys, dur \in BanDurations : PeerUpsertModel(p, k, dur)
    \/ \E p \in Procs, k \in BanKeys : BanIsBanned(p, k)
    \/ \E p \in Procs, k \in BanKeys : BanRemainingTime(p, k)
    \/ \E p \in Procs, k \in BanKeys : BanRemoveTask(p, k)
    \/ \E p \in Procs : BanDeliver(p)

(***************************************************************************)
(* hooks/auth_checker.py: the circuit breakers of the hook stages          *)
(*                                                                         *)
(* A call of time_hook is admitted or skipped when it starts; an admitted  *)
(* call runs inside asyncio.wait_for and ends by returning, by raising     *)
(* SkipPluginException, or by the timeout TIMEOUT_SECONDS after its start. *)
(***************************************************************************)
\* last value of the wall clock
MaxWall == 4
\* time_hook calls of one stage in one run
MaxCalls == 5
\* TIMEOUT_SECONDS and CIRCUIT_RESET_TIME, scaled (5.0 s and 300 s in the source)
TIMEOUT_SECONDS == 1
CIRCUIT_RESET_TIME == 2
\* CIRCUIT_BREAKERS[name]["threshold"]
threshold == 3

Stages == {"auth_bot", "auth_group"}

\* history of one stage: nothing the code reads
\*   calls       time_hook calls so far
\*   timeouts    calls that timed out so far
\*   thirdAt     Some(time of the threshold-th timeout), Nil before it
\*   late        timeouts after the cool-down that followed thirdAt
\*   streak      timeouts since the last call that ended without timing out
\*   openStreak  Some(streak when the breaker was last opened), Nil if never
\*   inCooldown  what the calls started during that cool-down did
\*   postKinds   what the calls started after it did, fewer than threshold
\*               timeouts having happened since
\*   probeDone   a call started after the cool-down has ended
NoTrail ==
    [calls |-> 0, timeouts |-> 0, thirdAt |-> Nil, late |-> 0, streak |-> 0,
     openStreak |-> Nil, inCooldown |-> {}, postKinds |-> {}, probeDone |-> FALSE]

InitBreaker ==
    /\ wall = 0
    /\ CIRCUIT_BREAKERS = [s \in Stages |->
                             [failures |-> 0, active |-> FALSE, reset_time |-> 0]]
    /\ running = [s \in Stages |-> [t \in 0..MaxWall |-> 0]]
    /\ trail = [s \in Stages |-> NoTrail]

\* with_timeout, except asyncio.TimeoutError: the breaker record afterwards
on_timeout(br, now) ==
    IF br.failures + 1 >= threshold /\ ~br.active
    THEN [failures |-> br.failures + 1, active |-> TRUE,
          reset_time |-> now + CIRCUIT_RESET_TIME]
    ELSE [br EXCEPT !.failures = @ + 1]

\* a check that closes the breaker as soon as the reset time is reached
check_circuit_breaker_early(br, now) ==
    IF br.active /\ now >= br.reset_time
    THEN <<FALSE, [br EXCEPT !.active = FALSE, !.failures = 0]>>
    ELSE <<br.active, br>>

\* a check that closes the breaker and keeps the failure count
check_circuit_breaker_keep_failures(br, now) ==
    IF br.active /\ now > br.reset_time
    THEN <<FALSE, [br EXCEPT !.active = FALSE]>>
    ELSE <<br.active, br>>

\* check_circuit_breaker: <<result, the breaker record afterwards>>
check_circuit_breaker(br, now) ==
    IF br.active /\ now > br.reset_time
    THEN <<FALSE, [br EXCEPT !.active = FALSE, !.failures = 0]>>
    ELSE <<br.active, br>>

Running(s) == {t \in 0..MaxWall : running[s][t] > 0}

\* the cool-down that followed the threshold-th timeout is running / is over
InCooldown(h, now) == h.thirdAt # Nil /\ now <= h.thirdAt[1] + CIRCUIT_RESET_TIME
AfterCooldown(h, now) == h.thirdAt # Nil /\ now > h.thirdAt[1] + CIRCUIT_RESET_TIME

\* the history after a call started at time t has ended, timed out or not
Ended(h, t, timedOut) ==
    LET n == IF timedOut THEN h.timeouts + 1 ELSE h.timeouts
    IN  [h EXCEPT
           !.timeouts = n,
           !.thirdAt = IF timedOut /\ n = threshold THEN Some(wall) ELSE @,
           !.late = IF timedOut /\ AfterCooldown(h, wall) THEN @ + 1 ELSE @,
           !.streak = IF timedOut THEN @ + 1 ELSE 0,
           !.probeDone = @ \/ AfterCooldown(h, t)]

\* time_hook up to the await: the breaker is checked and the stage skipped
\* (the coroutine is never awaited) or started inside with_timeout
HookStart(s) ==
    LET r == check_circuit_breaker(CIRCUIT_BREAKERS[s], wall)
        h == trail[s]
        kind == IF r[1] THEN "skip" ELSE "admit"
    IN  /\ h.calls < MaxCalls
        /\ CIRCUIT_BREAKERS' = [CIRCUIT_BREAKERS EXCEPT ![s] = r[2]]
        /\ running' = IF r[1] THEN running
                      ELSE [running EXCEPT ![s][wall] = @ + 1]
        /\ trail' = [trail EXCEPT ![s] =
               [h EXCEPT
                  !.calls = @ + 1,
                  !.inCooldown = IF InCooldown(h, wall) THEN @ \cup {kind} ELSE @,
                  !.postKinds = IF AfterCooldown(h, wall) /\ h.late < threshold
                                THEN @ \cup {kind} ELSE @]]
        /\ UNCHANGED <<wall, notBreakerVars>>

\* the stage returns before the timeout: time_hook returns its value
HookReturn(s, t) ==
    /\ running[s][t] > 0
    /\ wall < t + TIMEOUT_SECONDS
    /\ running' = [running EXCEPT ![s][t] = @ - 1]
    /\ trail' = [trail EXCEPT ![s] = Ended(@, t, FALSE)]
    /\ UNCHANGED <<wall, CIRCUIT_BREAKERS, notBreakerVars>>

\* the stage raises SkipPluginException before the timeout: time_hook lets it
\* through to the caller
HookDeny(s, t) ==
    /\ running[s][t] > 0
    /\ wall < t + TIMEOUT_SECONDS
    /\ running' = [running EXCEPT ![s][t] = @ - 1]
    /\ trail' = [trail EXCEPT ![s] = Ended(@, t, FALSE)]
    /\ UNCHANGED <<wall, CIRCUIT_BREAKERS, notBreakerVars>>

\* asyncio.wait_for times out: with_timeout counts the failure and re-raises,
\* time_hook swallows the TimeoutError
HookTimeout(s, t) ==
    LET br == on_timeout(CIRCUIT_BREAKERS[s], wall)
        h == Ended(trail[s], t, TRUE)
    IN  /\ running[s][t] > 0
        /\ wall >= t + TIMEOUT_SECONDS
        /\ running' = [running EXCEPT ![s][t] = @ - 1]
        /\ CIRCUIT_BREAKERS' = [CIRCUIT_BREAKERS EXCEPT ![s] = br]
        /\ trail' = [trail EXCEPT ![s] =
               [h EXCEPT !.openStreak =
                    IF br.active /\ ~CIRCUIT_BREAKERS[s].active
                    THEN Some(h.streak) ELSE @]]
        /\ UNCHANGED <<wall, notBreakerVars>>

\* time passes; a call whose timeout is due ends before time moves on
TickWall ==
    /\ wall < MaxWall
    /\ \A s \in Stages : \A t \in Running(s) : wall < t + TIMEOUT_SECONDS
    /\ wall' = wall + 1
    /\ UNCHANGED <<CIRCUIT_BREAKERS, running, trail, notBreakerVars>>

NextBreaker ==
    \/ TickWall
    \/ \E s \in Stages : HookStart(s)
    \/ \E s \in Stages, t \in 0..MaxWall : HookReturn(s, t)
    \/ \E s \in Stages, t \in 0..MaxWall : HookDeny(s, t)
    \/ \E s \in Stages, t \in 0..MaxWall : HookTimeout(s, t)

(***************************************************************************)
(* hooks/auth_hook.py and hooks/auth_checker.py: the gate                  *)
(*                                                                         *)
(* The run_preprocessor hook runs for an (event, module) pair; unless it   *)
(* raises IgnoredException the framework dispatches the module's handler.  *)
(* The events, groups and plugins are the rows below.  The plugins have    *)
(* no admin level, no cost, no block and no limit rule, and no stage of    *)
(* the full check times out here.                                          *)
(***************************************************************************)
SUPERUSERS == {"su"}
\* the message events: sender, group and plain text
GateEvents == {"e1", "e2", "e3"}
EventOf ==
    [e \in GateEvents |->
        CASE e = "e1" -> [user |-> "u1", group |-> "g1", text |-> "cmd"]
          [] e = "e2" -> [user |-> "u1", group |-> "gb", text |-> "cmd"]
          [] e = "e3" -> [user |-> "su", group |-> "gb", text |-> "cmd"]]
\* GroupMemoryCache: the group snapshots
GroupOf ==
    [g \in {"g1", "gb"} |->
        IF g = "g1" THEN [level |-> 5, status |-> TRUE]
        ELSE [level |-> -1, status |-> TRUE]]
\* the handler modules; chat_history is in _SKIP_AUTH_PLUGINS
Modules == {"m1", "m2", "ms", "chat_history"}
\* PluginInfoMemoryCache and the route index: the plugin rows and their commands
PluginOf ==
    [m \in Modules |->
        CASE m = "m1" -> [plugin_type |-> "NORMAL", level |-> 5, commands |-> {"cmd"}]
          [] m = "m2" -> [plugin_type |-> "NORMAL", level |-> 5, commands |-> {"other"}]
          [] m = "ms" -> [plugin_type |-> "SUPERUSER", level |-> 5,
                          commands |-> {"cmd"}]
          [] OTHER -> [plugin_type |-> "NORMAL", level |-> 5, commands |-> {}]]

\* the matchers the framework runs for each event
Pairs == {<<"e1", "m1">>, <<"e1", "m2">>, <<"e1", "ms">>, <<"e1", "chat_history">>,
          <<"e2", "m1">>, <<"e3", "m1">>}

\* the process whose gate is followed
Self == "B"

EmptyEventCache ==
    [ban_state |-> Nil, route_skip |-> FALSE, auth_result |-> EmptyMap]

\* _start_auth_queue: worker_count
worker_count == Max(1, Min(6, AUTH_QUEUE_MAXSIZE \div 50))

InitGate ==
    /\ cacheReady = FALSE
    /\ pc = [t \in Pairs |-> "none"]
    /\ AUTH_QUEUE = <<>>
    /\ worker = [w \in 1..worker_count |-> Nil]
    /\ EVENT_CACHE = [e \in GateEvents |-> EmptyEventCache]
    /\ verdict = [t \in Pairs |-> "none"]
    /\ qlenAt = [t \in Pairs |-> -1]
    /\ dropAt = [t \in Pairs |-> -1]

\* _skip_auth_for_plugin
skip_auth_for_plugin(m) == m \in {"chat_history", "chat_message"}

\* _match_route_modules with _command_matches: the texts are single words
match_route_modules(text) ==
    IF text = "" THEN {} ELSE {m \in Modules : text \in PluginOf[m].commands}

ROUTE_MODULES_WITH_COMMANDS == {m \in Modules : PluginOf[m].commands # {}}

\* the test route_precheck and auth share: the module declares commands and
\* the text matches none of them
route_miss(m, text) ==
    m \in ROUTE_MODULES_WITH_COMMANDS /\ m \notin match_route_modules(text)

\* auth_ban.is_ban on a ban cache: [ret, negative, remove]
is_ban(c, u, g, now) ==
    IF (u = None /\ g = None) \/ ~c.loaded
    THEN [ret |-> 0, negative |-> c.negative, remove |-> Nil]
    ELSE [f \in {"ret", "negative", "remove"} |-> remaining_time(c, u, g, now)[f]]

\* group_handle, then user_handle, given the answers g and u of their is_ban
\* reads: whether SkipPluginException was raised, the negative map afterwards
\* and the removal tasks created
ban_handles(ev, g, u) ==
    IF ev.group # None /\ g.ret # 0
    THEN [skip |-> TRUE, neg |-> g.negative, rm |-> Range(g.remove)]
    ELSE [skip |-> ev.user # None /\ u.ret # 0, neg |-> u.negative,
          rm |-> Range(g.remove) \cup Range(u.remove)]

\* auth_ban on the ban cache c: [skip, neg, rm]
auth_ban(c, ev, now) ==
    IF ev.user \in SUPERUSERS
    THEN [skip |-> FALSE, neg |-> c.negative, rm |-> {}]
    ELSE ban_handles(ev, is_ban(c, None, ev.group, now),
                     is_ban([c EXCEPT !.negative =
                                 is_ban(c, None, ev.group, now).negative],
                            ev.user, ev.group, now))

\* the outcome r of auth_ban is memoised in the event cache ec
ban_state_set(ec, r) ==
    [skip |-> r.skip, ec |-> [ec EXCEPT !.ban_state = Some(r.skip)],
     neg |-> r.neg, rm |-> r.rm]

\* auth_ban_fast on the event cache ec and the ban cache c: [skip, ec, neg, rm]
auth_ban_fast(ec, c, ev, now) ==
    IF ec.ban_state = Some(TRUE)
    THEN [skip |-> TRUE, ec |-> ec, neg |-> c.negative, rm |-> {}]
    ELSE ban_state_set(ec, auth_ban(c, ev, now))

\* auth_precheck: TRUE when it raises SkipPluginException
auth_precheck(m, ev) ==
    /\ ev.user \notin SUPERUSERS
    /\ PluginOf[m].plugin_type = "SUPERUSER"

\* auth_bot: TRUE when it raises SkipPluginException (the bot row is present,
\* awake and blocks no plugin)
auth_bot(m) == FALSE

\* auth_group: TRUE when it raises SkipPluginException
auth_group(m, ev) ==
    /\ ev.group # None
    /\ \/ ev.group \notin DOMAIN GroupOf
       \/ /\ ev.group \in DOMAIN GroupOf
          /\ \/ GroupOf[ev.group].level < 0
             \/ ev.text # "enable" /\ ~GroupOf[ev.group].status
             \/ PluginOf[m].level > GroupOf[ev.group].level

\* time_hook around a stage: the stage's exception comes through unless the
\* stage's breaker is open
time_hook(name, raises, now) ==
    IF name \in Stages /\ check_circuit_breaker(CIRCUIT_BREAKERS[name], now)[1]
    THEN FALSE ELSE raises

\* the end of auth(): the verdict is memoised in the event cache of x
auth_end(m, v, x) ==
    [verdict |-> v,
     ec |-> [x.ec EXCEPT !.auth_result = MapPut(@, m, v # "deny")],
     neg |-> x.neg, rm |-> x.rm]

\* the evaluations, by user and module, in which a hook raises an exception
\* that is none of SkipPluginException, IsSuperuserException and
\* PermissionExemption
Faulty == {<<"su", "m1">>}

\* auth() left by an exception it does not catch: auth_allowed is None and no
\* verdict is memoised
auth_raise(x) ==
    [verdict |-> "error", ec |-> x.ec, neg |-> x.neg, rm |-> x.rm]

\* auth() from the ban stage on; ban is the outcome of that stage
auth_hooks(m, ev, ban, now) ==
    IF ban.skip THEN auth_end(m, "deny", ban)
    ELSE IF <<ev.user, m>> \in Faulty THEN auth_raise(ban)
    ELSE IF time_hook("auth_bot", auth_bot(m), now) THEN auth_end(m, "deny", ban)
    ELSE IF /\ ev.user \notin SUPERUSERS
            /\ time_hook("auth_group", auth_group(m, ev), now)
    THEN auth_end(m, "deny", ban)
    ELSE auth_end(m, "allow", ban)

\* auth(..., skip_ban=True) for module m and event ev, on the event cache ec
\* and the ban cache c: [verdict, ec, neg, rm]
auth(m, ev, ec, c, now) ==
    LET keep == [ec |-> ec, neg |-> c.negative, rm |-> {}]
    IN  IF m \in DOMAIN ec.auth_result
        THEN [verdict |-> IF ec.auth_result[m] THEN "allow" ELSE "deny",
              ec |-> ec, neg |-> c.negative, rm |-> {}]
        ELSE IF ec.ban_state = Some(TRUE) THEN auth_end(m, "deny", keep)
        ELSE IF route_miss(m, ev.text)
        THEN auth_end(m, "allow", [keep EXCEPT !.ec.route_skip = TRUE])
        ELSE IF PluginOf[m].plugin_type = "SUPERUSER" /\ ev.user \notin SUPERUSERS
        THEN auth_end(m, "deny", keep)
        ELSE IF ec.ban_state = Nil
        THEN auth_hooks(m, ev, ban_state_set(ec, auth_ban(c, ev, now)), now)
        ELSE auth_hooks(m, ev, keep @@ [skip |-> FALSE], now)

\* the signal_overload calls of _auth_preprocessor: put_nowait failed, or the
\* queue has reached the high-water mark
Signals(n, full) == full \/ n >= AUTH_QUEUE_HIGH_WATER

\* a put that never drops
put_nowait_unbounded(q, t) == [full |-> FALSE, q |-> Append(q, t)]

\* _AUTH_QUEUE.put_nowait: asyncio.QueueFull or the queue afterwards
put_nowait(q, t) ==
    IF Len(q) >= AUTH_QUEUE_MAXSIZE THEN [full |-> TRUE, q |-> q]
    ELSE [full |-> FALSE, q |-> Append(q, t)]

\* a ban saved by a peer before this process has loaded its caches
GateSeedBan(k) ==
    /\ ~cacheReady
    /\ saves = 0
    /\ PeerUpsertModel("A", k, -1)

\* _init_runtime_cache when its loads succeed: the caches are loaded, then the
\* ready barrier is set (a load that fails: BootFinish)
GateStartup ==
    /\ ~cacheReady
    /\ cacheReady' = TRUE
    /\ banCache' = [banCache EXCEPT ![Self] = ban_refresh(@, banDb, clock)]
    /\ UNCHANGED <<pc, AUTH_QUEUE, worker, EVENT_CACHE, verdict, qlenAt, dropAt,
                   clock, removeTasks, banDb, inbox, saves, last,
                   loadVars, breakerVars, syncVars, limitVars,
                   policyVars, hooksVars, memoVars, lateVars>>

\* what a step of the gate leaves of the ban cache and the overload flag
GateEffects(neg, rm, sig) ==
    /\ banCache' = [banCache EXCEPT ![Self].negative = neg]
    /\ removeTasks' = [removeTasks EXCEPT ![Self] = @ \cup rm]
    /\ OVERLOAD_UNTIL' = IF sig
                         THEN signal_overload(OVERLOAD_UNTIL, mono,
                                              AUTH_OVERLOAD_WINDOW)
                         ELSE OVERLOAD_UNTIL
    /\ sigMax' = IF sig THEN Max(sigMax, mono + AUTH_OVERLOAD_WINDOW) ELSE sigMax
    /\ sigLast' = IF sig THEN [at |-> mono, duration |-> AUTH_OVERLOAD_WINDOW]
                  ELSE sigLast
    /\ UNCHANGED <<mono, clock, banDb, inbox, saves, last, breakerVars, syncVars, limitVars,
                   policyVars, hooksVars, memoVars, lateVars>>

\* _auth_preprocessor for the event e and the matcher of module m
GatePre(e, m) ==
    \E b \in {auth_ban_fast(EVENT_CACHE[e], banCache[Self], EventOf[e], clock)},
       r \in {put_nowait(AUTH_QUEUE, <<e, m>>)} :
    LET t == <<e, m>>
        ev == EventOf[e]
        ec == EVENT_CACHE[e]
        early == ~cacheReady \/ skip_auth_for_plugin(m)
        miss == ~early /\ route_miss(m, ev.text)
        checked == ~early /\ ~miss
        ignored == ~cacheReady \/ (checked /\ (b.skip \/ auth_precheck(m, ev)))
        queued == checked /\ ~ignored /\ ~b.ec.route_skip
    IN  /\ pc[t] = "none"
        /\ Cardinality({x \in Pairs : pc[x] # "none"}) < NumTasks
        /\ pc' = [pc EXCEPT ![t] = IF ignored THEN "ignored" ELSE "passed"]
        /\ EVENT_CACHE' = [EVENT_CACHE EXCEPT ![e] =
               IF miss THEN [ec EXCEPT !.route_skip = TRUE]
               ELSE IF checked THEN b.ec ELSE ec]
        /\ AUTH_QUEUE' = IF queued THEN r.q ELSE AUTH_QUEUE
        /\ qlenAt' = [qlenAt EXCEPT ![t] = IF queued THEN Len(AUTH_QUEUE) ELSE @]
        /\ dropAt' = [dropAt EXCEPT ![t] = IF queued /\ r.full THEN mono ELSE @]
        /\ GateEffects(IF checked THEN b.neg ELSE banCache[Self].negative,
                       IF checked THEN b.rm ELSE {},
                       queued /\ Signals(Len(r.q), r.full))
        /\ UNCHANGED <<cacheReady, worker, verdict>>

\* the framework dispatches the handler of a pair the preprocessor let through
GateRun(t) ==
    /\ pc[t] = "passed"
    /\ pc' = [pc EXCEPT ![t] = "ran"]
    /\ UNCHANGED <<cacheReady, AUTH_QUEUE, worker, EVENT_CACHE, verdict, qlenAt,
                   dropAt, loadVars, banVars, breakerVars, syncVars, limitVars,
                   policyVars, hooksVars, memoVars, lateVars>>

\* _auth_worker: await _AUTH_QUEUE.get()
WorkerGet(w) ==
    /\ worker[w] = Nil
    /\ AUTH_QUEUE # <<>>
    /\ worker' = [worker EXCEPT ![w] = Some(Head(AUTH_QUEUE))]
    /\ AUTH_QUEUE' = Tail(AUTH_QUEUE)
    /\ UNCHANGED <<cacheReady, pc, EVENT_CACHE, verdict, qlenAt, dropAt,
                   loadVars, banVars, breakerVars, syncVars, limitVars,
                   policyVars, hooksVars, memoVars, lateVars>>

\* _auth_worker: auth(..., skip_ban=True); an IgnoredException is passed over
\* and any other exception is logged
WorkerAuth(w) ==
    /\ worker[w] # Nil
    /\ \E t \in Range(worker[w]) :
       \E a \in {auth(t[2], EventOf[t[1]], EVENT_CACHE[t[1]], banCache[Self],
                      clock)} :
           /\ verdict' = [verdict EXCEPT ![t] = a.verdict]
           /\ EVENT_CACHE' = [EVENT_CACHE EXCEPT ![t[1]] = a.ec]
           /\ GateEffects(a.neg, a.rm, FALSE)
    /\ worker' = [worker EXCEPT ![w] = Nil]
    /\ UNCHANGED <<cacheReady, pc, AUTH_QUEUE, qlenAt, dropAt>>

NextGate ==
    \/ TickMono
    \/ \E k \in BanKeys : GateSeedBan(k)
    \/ GateStartup
    \/ \E t \in Pairs : GatePre(t[1], t[2])
    \/ \E t \in Pairs : GateRun(t)
    \/ \E w \in 1..worker_count : WorkerGet(w)
    \/ \E w \in 1..worker_count : WorkerAuth(w)

(***************************************************************************)
(* Replicated upserts: services/cache/runtime_cache.py                     *)
(* The bot, group, level and plugin-limit caches of the process Self, next *)
(* to its ban cache, handling the upsert messages of other instances.  A   *)
(* snapshot keeps the fields of its row that decide its key and its place  *)
(* in the maps.                                                            *)
(***************************************************************************)
MaxSyncSteps == 3
MEM_NEGATIVE_TTL == 1

\* the instances whose messages arrive
SyncSources == {"A", "C"}
SyncTypes == {"ban", "bot", "group", "level", "plugin_limit"}

EmptySnapshots ==
    [bot |-> [by_id |-> EmptyMap, negative |-> EmptyMap, loaded |-> FALSE],
     group |-> [by_key |-> EmptyMap, negative |-> EmptyMap, loaded |-> FALSE],
     level |-> [by_key |-> EmptyMap, negative |-> EmptyMap, loaded |-> FALSE],
     plugin_limit |-> [by_id |-> EmptyMap, by_module |-> EmptyMap,
                       negative |-> EmptyMap, loaded |-> FALSE]]

\* the reads of the key of one cache that found it missing from the loaded
\* cache, since the first of them whose negative TTL window is still open:
\*   first   the time of that first read, or -1
\*   gets    the number of these reads
\*   reads   the number of storage reads these reads made
NoGets == [first |-> -1, gets |-> 0, reads |-> 0]

InitSync ==
    /\ snapshots = EmptySnapshots
    /\ lastSync = Nil
    /\ syncSteps = 0
    /\ getHist = [t \in SyncTypes |-> NoGets]

\* BotSnapshot.from_payload
bot_from_payload(payload) ==
    [bot_id |-> payload.bot_id, status |-> payload.status]

\* BotMemoryCache.upsert_from_payload
bot_upsert_from_payload(c, payload) ==
    LET entry == bot_from_payload(payload)
    IN  IF entry.bot_id = "" THEN c
        ELSE [c EXCEPT !.by_id = MapPut(@, entry.bot_id, entry),
                       !.negative = MapPop(@, entry.bot_id)]

\* GroupSnapshot.from_payload
group_from_payload(payload) ==
    [group_id |-> payload.group_id, channel_id |-> payload.channel_id,
     status |-> payload.status, level |-> payload.level]

\* GroupMemoryCache._key: Some(<<group_id, channel_id or "">>), or Nil
group_key(group_id, channel_id) ==
    IF normalize_id(group_id) = None THEN Nil
    ELSE Some(<<normalize_id(group_id),
                IF normalize_id(channel_id) = None THEN ""
                ELSE normalize_id(channel_id)>>)

\* GroupMemoryCache.upsert_from_payload
group_upsert_from_payload(c, payload) ==
    LET entry == group_from_payload(payload)
        key == group_key(entry.group_id, entry.channel_id)
    IN  IF key = Nil THEN c
        ELSE [c EXCEPT !.by_key = MapPut(@, key[1], entry),
                       !.negative = MapPop(@, key[1])]

\* LevelUserSnapshot.from_payload
level_from_payload(payload) ==
    [user_id |-> payload.user_id, group_id |-> payload.group_id,
     user_level |-> payload.user_level]

\* LevelUserMemoryCache._key: Some(<<user_id, group_id or "">>), or Nil
level_key(user_id, group_id) ==
    IF ~Truthy(user_id) THEN Nil
    ELSE Some(<<user_id, IF Truthy(group_id) THEN group_id ELSE "">>)

\* LevelUserMemoryCache.upsert_from_payload
level_upsert_from_payload(c, payload) ==
    LET entry == level_from_payload(payload)
        key == level_key(entry.user_id, entry.group_id)
    IN  IF key = Nil THEN c
        ELSE [c EXCEPT !.by_key = MapPut(@, key[1], entry),
                       !.negative = MapPop(@, key[1])]

\* PluginLimitSnapshot.from_payload
limit_from_payload(payload) ==
    [id |-> payload.id, module |-> payload.module, status |-> payload.status]

\* [item for item in cls._by_module.get(module, []) if item.id != id]
limits_without(by_module, module, id) ==
    IF module \in DOMAIN by_module
    THEN SelectSeq(by_module[module], LAMBDA item : item.id # id)
    ELSE <<>>

\* the module lists once the previous snapshot of the id has left the list of
\* another module
limits_moved(c, entry) ==
    IF entry.id \in DOMAIN c.by_id /\ c.by_id[entry.id].module # entry.module
    THEN MapPut(c.by_module, c.by_id[entry.id].module,
                limits_without(c.by_module, c.by_id[entry.id].module, entry.id))
    ELSE c.by_module

\* an upsert that appends to the list of the module without looking for the id
limit_upsert_entry_append(c, entry) ==
    IF ~entry.status
    THEN [c EXCEPT !.by_id = MapPop(@, entry.id),
                   !.by_module = MapPut(limits_moved(c, entry), entry.module,
                       limits_without(limits_moved(c, entry), entry.module,
                                      entry.id))]
    ELSE [c EXCEPT !.by_id = MapPut(@, entry.id, entry),
                   !.by_module = MapPut(limits_moved(c, entry), entry.module,
                       Append(IF entry.module \in DOMAIN limits_moved(c, entry)
                              THEN limits_moved(c, entry)[entry.module]
                              ELSE <<>>, entry)),
                   !.negative = MapPop(@, entry.module)]

\* PluginLimitMemoryCache._upsert_entry
limit_upsert_entry(c, entry) ==
    IF ~entry.status
    THEN [c EXCEPT !.by_id = MapPop(@, entry.id),
                   !.by_module = MapPut(limits_moved(c, entry), entry.module,
                       limits_without(limits_moved(c, entry), entry.module,
                                      entry.id))]
    ELSE [c EXCEPT !.by_id = MapPut(@, entry.id, entry),
                   !.by_module = MapPut(limits_moved(c, entry), entry.module,
                       Append(limits_without(limits_moved(c, entry),
                                             entry.module, entry.id), entry)),
                   !.negative = MapPop(@, entry.module)]

\* PluginLimitMemoryCache.upsert_from_payload
limit_upsert_from_payload(c, payload) ==
    limit_upsert_entry(c, limit_from_payload(payload))

\* the upsert of one cache, as its apply_sync_event("upsert", data) does it
snapshots_upsert(S, type, data) ==
    CASE type = "bot" -> [S EXCEPT !.bot = bot_upsert_from_payload(@, data)]
      [] type = "group" -> [S EXCEPT !.group = group_upsert_from_payload(@, data)]
      [] type = "level" -> [S EXCEPT !.level = level_upsert_from_payload(@, data)]
      [] type = "plugin_limit" ->
             [S EXCEPT !.plugin_limit = limit_upsert_from_payload(@, data)]
      [] OTHER -> S

\* RuntimeCacheSync._handle_message for an upsert message msg, on the ban cache
\* c and the other caches S of process p: <<ban cache, other caches>>
handle_upsert_message(p, c, S, msg, db, now) ==
    IF msg.source = INSTANCE_ID(p) THEN <<c, S>>
    ELSE <<handle_message(p, c, msg, db, now)[1],
           snapshots_upsert(S, msg.type, msg.data)>>

\* get / get_limits on a key: the negative map afterwards
get_negative(entries, negative, key, now) ==
    IF key \in DOMAIN entries THEN negative
    ELSE IF key \in DOMAIN negative /\ negative[key] > now THEN negative
    ELSE IF MEM_NEGATIVE_TTL <= 0 THEN MapPop(negative, key)
    ELSE MapPut(negative, key, now + MEM_NEGATIVE_TTL * TicksPerSec)

\* the payloads that arrive, per cache
SyncPayloads(type) ==
    CASE type = "ban" ->
             {ban_to_payload(BanEntry(k[1], k[2], 5, 0, dur)) :
                  k \in BanKeys, dur \in BanDurations}
      [] type = "bot" -> [bot_id : {"b1", ""}, status : BOOLEAN]
      [] type = "group" -> [group_id : {"g1", ""}, channel_id : {None, "c1"},
                            status : {TRUE}, level : {-1, 5}]
      [] type = "level" -> [user_id : {"u1", ""}, group_id : {None, "g1"},
                            user_level : {0, 5}]
      [] type = "plugin_limit" -> [id : {1, 2}, module : {"m1", "m2"},
                                   status : BOOLEAN]

\* refresh() of the bot, group, level or plugin-limit cache c from a storage
\* that holds no row
snapshot_refresh(c) ==
    [f \in DOMAIN c |-> IF f = "loaded" THEN TRUE ELSE EmptyMap]

\* _init_runtime_cache: every cache is refreshed from the (empty) storage
SyncStartup ==
    /\ ~banCache[Self].loaded
    /\ banCache' = [banCache EXCEPT ![Self] = ban_refresh(@, banDb, clock)]
    /\ snapshots' = [t \in DOMAIN snapshots |-> snapshot_refresh(snapshots[t])]
    /\ lastSync' = Nil
    /\ UNCHANGED <<syncSteps, getHist, clock, removeTasks, banDb, inbox, saves,
                   last, loadVars, breakerVars, gateVars, limitVars,
                   policyVars, hooksVars, memoVars, lateVars>>

\* a get that falls back to the storage whenever the key is not cached
get_reads_every_miss(loaded, entries, key) ==
    IF ~loaded \/ key \notin DOMAIN entries THEN 1 ELSE 0

\* the storage reads of get / get_limits: ensure_loaded on a cold cache
get_reads(loaded, entries, key) == IF ~loaded THEN 1 ELSE 0

\* get / get_limits of the cache c, whose map of entries is c[index]:
\*   cache   the cache afterwards
\*   miss    the key was not found
\*   reads   the storage reads made
snapshot_get(c, index, key, now) ==
    [cache |-> IF c.loaded
               THEN [c EXCEPT !.negative = get_negative(c[index], @, key, now)]
               ELSE [snapshot_refresh(c) EXCEPT !.negative =
                         get_negative(EmptyMap, @, key, now)],
     miss |-> ~c.loaded \/ key \notin DOMAIN c[index],
     reads |-> get_reads(c.loaded, c[index], key)]

\* the key read and the map it is looked up in, per cache
SyncKey(type) ==
    CASE type = "bot" -> [index |-> "by_id", key |-> "b1"]
      [] type = "group" -> [index |-> "by_key", key |-> <<"g1", "">>]
      [] type = "level" -> [index |-> "by_key", key |-> <<"u1", "">>]
      [] type = "plugin_limit" -> [index |-> "by_module", key |-> "m1"]
      [] type = "ban" -> [index |-> "by_user", key |-> "u1"]

\* the negative TTL of a cache, in ticks
NegativeTicks(type) ==
    IF type = "ban" THEN BAN_MEM_NEGATIVE_TTL * TicksPerSec
    ELSE MEM_NEGATIVE_TTL * TicksPerSec

\* the history of a cache after a read at now that made reads storage reads;
\* counted says the key was missing from the cache, which was loaded
GetsAfter(h, type, counted, hit, reads, now) ==
    IF hit THEN NoGets
    ELSE IF ~counted THEN h
    ELSE IF h.first >= 0 /\ now < h.first + NegativeTicks(type)
    THEN [h EXCEPT !.gets = @ + 1, !.reads = @ + reads]
    ELSE [first |-> now, gets |-> 1, reads |-> reads]

\* a read of a key that may be missing: BotMemoryCache.get, GroupMemoryCache.get,
\* LevelUserMemoryCache.get, PluginLimitMemoryCache.get_limits
SyncGet(type) ==
    /\ type # "ban"
    /\ syncSteps < MaxSyncSteps
    /\ syncSteps' = syncSteps + 1
    /\ lastSync' = Nil
    /\ \E r \in {snapshot_get(snapshots[type], SyncKey(type).index,
                              SyncKey(type).key, clock)} :
           /\ snapshots' = [snapshots EXCEPT ![type] = r.cache]
           /\ getHist' = [getHist EXCEPT ![type] =
                  GetsAfter(@, type, r.miss /\ snapshots[type].loaded, ~r.miss,
                            r.reads, clock)]
    /\ UNCHANGED <<banVars, loadVars, breakerVars, gateVars, limitVars,
                   policyVars, hooksVars, memoVars, lateVars>>

\* BanMemoryCache.is_banned of a user who may have no ban
SyncIsBanned ==
    /\ syncSteps < MaxSyncSteps
    /\ syncSteps' = syncSteps + 1
    /\ lastSync' = Nil
    /\ \E r \in {is_banned(banCache[Self], "u1", None, clock)} :
           /\ banCache' = [banCache EXCEPT ![Self].negative = r.negative]
           /\ removeTasks' = [removeTasks EXCEPT ![Self] = @ \cup Range(r.remove)]
           /\ getHist' = [getHist EXCEPT !["ban"] =
                  GetsAfter(@, "ban", r.entry = Nil /\ banCache[Self].loaded,
                            r.entry # Nil, 0, clock)]
    /\ UNCHANGED <<snapshots, clock, banDb, inbox, saves, last, loadVars,
                   breakerVars, gateVars, limitVars,
                   policyVars, hooksVars, memoVars, lateVars>>

\* RuntimeCacheSync._listen_loop: an upsert message of another instance is
\* handled
SyncDeliver(src, type, data) ==
    LET msg == [source |-> INSTANCE_ID(src), type |-> type, action |-> "upsert",
                data |-> data]
    IN  /\ syncSteps < MaxSyncSteps
        /\ syncSteps' = syncSteps + 1
        /\ lastSync' = Some(msg)
        /\ \E r \in {handle_upsert_message(Self, banCache[Self], snapshots, msg,
                                           banDb, clock)} :
               /\ banCache' = [banCache EXCEPT ![Self] = r[1]]
               /\ snapshots' = r[2]
        /\ UNCHANGED <<getHist, clock, removeTasks, banDb, inbox, saves, last, loadVars,
                       breakerVars, gateVars, limitVars,
                   policyVars, hooksVars, memoVars, lateVars>>

NextSync ==
    \/ TickClock
    \/ SyncStartup
    \/ \E type \in SyncTypes : SyncGet(type)
    \/ SyncIsBanned
    \/ \E src \in SyncSources, type \in SyncTypes :
           \E data \in SyncPayloads(type) : SyncDeliver(src, type, data)

(***************************************************************************)
(* Rate limits: builtin_plugins/hooks/auth/auth_limit.py                   *)
(* LimitManager and the limiters it holds.  The limiter classes            *)
(* (zhenxun.utils.limiters) are modelled after the specification: a        *)
(* cooldown limiter rejects inside its window, a block limiter while its   *)
(* flag is set, a count limiter once its counter has reached the maximum.  *)
(***************************************************************************)
MaxLimitCalls == 3

\* PluginLimitMemoryCache.get_all_limits(): the rules, cd in seconds
LimitRules ==
    << [id |-> 1, module |-> "mcd", limit_type |-> "CD", watch_type |-> "USER",
        cd |-> 1, max_count |-> 0],
       [id |-> 2, module |-> "mblk", limit_type |-> "BLOCK",
        watch_type |-> "GROUP", cd |-> 0, max_count |-> 0],
       [id |-> 3, module |-> "mcd", limit_type |-> "COUNT",
        watch_type |-> "USER", cd |-> 0, max_count |-> 1] >>

\* who calls: <<user_id, group_id, channel_id>>
LimitCallers == {<<"u1", None, None>>, <<"u1", "g1", None>>, <<"u2", "g1", None>>}

EmptyLimitManager ==
    [add_module |-> {}, cd_limit |-> EmptyMap, block_limit |-> EmptyMap,
     count_limit |-> EmptyMap]

\* LimitManager.add_limit
add_limit(L, limit) ==
    IF limit.module \in L.add_module THEN L
    ELSE LET L1 == [L EXCEPT !.add_module = @ \cup {limit.module}]
         IN  IF limit.limit_type = "BLOCK"
             THEN [L1 EXCEPT !.block_limit = MapPut(@, limit.module, limit)]
             ELSE IF limit.limit_type = "CD"
             THEN [L1 EXCEPT !.cd_limit = MapPut(@, limit.module, limit)]
             ELSE IF limit.limit_type = "COUNT" /\ limit.max_count > 0
             THEN [L1 EXCEPT !.count_limit = MapPut(@, limit.module, limit)]
             ELSE L1

RECURSIVE add_limits(_, _)
add_limits(L, rules) ==
    IF rules = <<>> THEN L ELSE add_limits(add_limit(L, Head(rules)), Tail(rules))

\* LimitManager.update_limits
update_limits(rules) == add_limits(EmptyLimitManager, rules)

\* the key a rule watches: the user, or the channel or group under GROUP scope
key_type(limit, u, g, ch) ==
    IF Truthy(g) /\ limit.watch_type = "GROUP"
    THEN IF Truthy(ch) THEN ch ELSE g
    ELSE u

\* the state of the limiters: FreqLimiter deadlines, UserBlockLimiter flags and
\* CountLimiter counters, each per <<module, key>>
EmptyLimiters == [next_time |-> EmptyMap, flag_data |-> {}, count |-> EmptyMap]

\* limiter.check(key) of the limiter of a rule
limiter_check(lim, limit, k, now) ==
    CASE limit.limit_type = "CD" ->
             k \notin DOMAIN lim.next_time \/ now >= lim.next_time[k]
      [] limit.limit_type = "BLOCK" -> k \notin lim.flag_data
      [] OTHER -> k \notin DOMAIN lim.count \/ lim.count[k] < limit.max_count

\* start_cd / set_true / increase of the limiter of a rule
limiter_commit(lim, limit, k, now) ==
    CASE limit.limit_type = "CD" ->
             [lim EXCEPT !.next_time = MapPut(@, k, now + limit.cd * TicksPerSec)]
      [] limit.limit_type = "BLOCK" -> [lim EXCEPT !.flag_data = @ \cup {k}]
      [] OTHER -> [lim EXCEPT !.count =
                       MapPut(@, k, IF k \in DOMAIN @ THEN @[k] + 1 ELSE 1)]

\* a check whose rejections start the window again
limit_check_rule_restart(lim, limit, u, g, ch, now) ==
    [denied |-> ~limiter_check(lim, limit, <<limit.module, key_type(limit, u, g, ch)>>,
                               now),
     lim |-> limiter_commit(lim, limit, <<limit.module, key_type(limit, u, g, ch)>>,
                            now)]

\* LimitManager.__check of one rule: is_limit is always true, its first operand
\* being the enum member LimitWatchType.ALL
limit_check_rule(lim, limit, u, g, ch, now) ==
    IF ~limiter_check(lim, limit, <<limit.module, key_type(limit, u, g, ch)>>, now)
    THEN [denied |-> TRUE, lim |-> lim]
    ELSE [denied |-> FALSE,
          lim |-> limiter_commit(lim, limit,
                                 <<limit.module, key_type(limit, u, g, ch)>>, now)]

\* the rules LimitManager holds once init_limit has run
Limits == update_limits(LimitRules)

\* one of the three checks of LimitManager.check, after the outcome prev of the
\* checks before it: a rejection ends the check
limit_check_step(prev, dict, module, u, g, ch, now) ==
    IF prev.denied \/ module \notin DOMAIN Limits[dict] THEN prev
    ELSE limit_check_rule(prev.lim, Limits[dict][module], u, g, ch, now)

\* LimitManager.check: [denied, lim]
limit_check(lim, module, u, g, ch, now) ==
    limit_check_step(
        limit_check_step(
            limit_check_step([denied |-> FALSE, lim |-> lim], "cd_limit",
                             module, u, g, ch, now),
            "block_limit", module, u, g, ch, now),
        "count_limit", module, u, g, ch, now)

\* LimitManager.unblock
unblock(lim, module, u, g, ch) ==
    IF module \in DOMAIN Limits.block_limit
    THEN [lim EXCEPT !.flag_data =
              @ \ {<<module, key_type(Limits.block_limit[module], u, g, ch)>>}]
    ELSE lim

\* an auth() that leaves the block alone when it ends in Deny
auth_except_keep_block(lim, module, u, g, ch) == lim

\* auth(), except SkipPluginException: the block of the caller is released
auth_except(lim, module, u, g, ch) == unblock(lim, module, u, g, ch)

LimitModules == {"mcd", "mblk"}

\* the rule consulted for a module
RuleOf(m) ==
    IF m \in DOMAIN Limits.cd_limit THEN Limits.cd_limit[m]
    ELSE IF m \in DOMAIN Limits.block_limit THEN Limits.block_limit[m]
    ELSE Limits.count_limit[m]

\* the limiter key of a caller c of module m
KeyOf(m, c) == <<m, key_type(RuleOf(m), c[1], c[2], c[3])>>

\* the last evaluation that had a limit stage:
\*   key          the limiter key of the caller
\*   caller       who made the call: <<user_id, group_id, channel_id>>
\*   at           when it was made
\*   ran          the limit stage was run
\*   limited      the rule rejected the call
\*   deny         the evaluation ended in Deny
\*   prevAllowed  when the rule last let a call of the key pass before, or -1
\*   heldBefore   the handlers running for the key when the call was made
NoLimit ==
    [module |-> None, key |-> <<None, None>>,
     caller |-> <<None, None, None>>, at |-> -1,
     ran |-> FALSE,
     limited |-> FALSE, deny |-> FALSE, prevAllowed |-> -1, heldBefore |-> 0]

InitLimit ==
    /\ limiters = EmptyLimiters
    /\ limRunning = [x \in LimitModules \X LimitCallers |-> 0]
    /\ allowedAt = EmptyMap
    /\ limLast = NoLimit
    /\ limCalls = 0

\* the handlers running for the limiter key k
RECURSIVE SumRunning(_, _)
SumRunning(k, xs) ==
    IF xs = {} THEN 0
    ELSE LET x == CHOOSE y \in xs : TRUE
         IN  (IF KeyOf(x[1], x[2]) = k THEN limRunning[x] ELSE 0)
             + SumRunning(k, xs \ {x})

\* auth() of module m for the caller c.  other says what the stages other than
\* the limit stage do: "none" of them denies, one denies before ("pre") the
\* hooks are gathered, or one of the gathered hooks denies ("hook") while the
\* limit stage runs next to it
LimitAuth(m, c, other) ==
    \E r \in {IF other = "pre" THEN [denied |-> FALSE, lim |-> limiters]
              ELSE limit_check(limiters, m, c[1], c[2], c[3], clock)} :
    LET deny == other # "none" \/ r.denied
        ran == other # "pre"
    IN  /\ limCalls < MaxLimitCalls
        /\ limCalls' = limCalls + 1
        /\ limiters' = IF deny THEN auth_except(r.lim, m, c[1], c[2], c[3])
                       ELSE r.lim
        /\ limRunning' = IF deny THEN limRunning
                         ELSE [limRunning EXCEPT ![<<m, c>>] = @ + 1]
        /\ allowedAt' = IF ran /\ ~r.denied
                        THEN MapPut(allowedAt, KeyOf(m, c), clock)
                        ELSE allowedAt
        /\ limLast' = [module |-> m, key |-> KeyOf(m, c), caller |-> c,
                       at |-> clock,
                       ran |-> ran, limited |-> r.denied, deny |-> deny,
                       prevAllowed |-> IF KeyOf(m, c) \in DOMAIN allowedAt
                                       THEN allowedAt[KeyOf(m, c)] ELSE -1,
                       heldBefore |-> SumRunning(KeyOf(m, c),
                                                 LimitModules \X LimitCallers)]
        /\ UNCHANGED <<loadVars, banVars, breakerVars, gateVars, syncVars,
                   policyVars, hooksVars, memoVars, lateVars>>

\* _unblock_after_matcher: the handler of an allowed call has run
LimitPost(m, c) ==
    /\ limRunning[<<m, c>>] > 0
    /\ limRunning' = [limRunning EXCEPT ![<<m, c>>] = @ - 1]
    /\ limiters' = unblock(limiters, m, c[1], c[2], c[3])
    /\ limLast' = NoLimit
    /\ UNCHANGED <<allowedAt, limCalls, loadVars, banVars, breakerVars, gateVars,
                   syncVars,
                   policyVars, hooksVars, memoVars, lateVars>>

\* time.time() moves on
LimitTick ==
    /\ clock < MaxClock
    /\ clock' = clock + 1
    /\ limLast' = NoLimit
    /\ UNCHANGED <<limiters, limRunning, allowedAt, limCalls, banCache,
                   removeTasks, banDb, inbox, saves, last, loadVars, breakerVars,
                   gateVars, syncVars,
                   policyVars, hooksVars, memoVars, lateVars>>

NextLimit ==
    \/ LimitTick
    \/ \E m \in LimitModules, c \in LimitCallers, other \in {"none", "pre", "hook"} :
           LimitAuth(m, c, other)
    \/ \E m \in LimitModules, c \in LimitCallers : LimitPost(m, c)

(***************************************************************************)
(* The stages of auth() as functions of the plugin, the group, the user    *)
(* and the LevelUser rows                                                  *)
(***************************************************************************)
MaxGold == 3

\* no PluginInfo row for the module
NoPlugin == [module |-> None]

\* no LevelUser row
NoLevel == -1

Plugin(name, type, status, block, admin, cost, limit_su) ==
    [module |-> name, plugin_type |-> type, status |-> status,
     block_type |-> block, admin_level |-> admin, cost_gold |-> cost,
     level |-> 5, limit_superuser |-> limit_su]

PolicyPlugins ==
    {NoPlugin,
     Plugin("free", "NORMAL", TRUE, None, 0, 0, FALSE),
     Plugin("paid", "NORMAL", TRUE, None, 0, 2, FALSE),
     Plugin("paid_su", "NORMAL", TRUE, None, 0, 2, TRUE),
     Plugin("no_group", "NORMAL", TRUE, "GROUP", 0, 2, FALSE),
     Plugin("no_private", "NORMAL", TRUE, "PRIVATE", 0, 0, FALSE),
     Plugin("off", "NORMAL", FALSE, "ALL", 0, 2, FALSE),
     Plugin("admin", "ADMIN", TRUE, None, 5, 0, FALSE),
     Plugin("super", "SUPERUSER", TRUE, None, 0, 2, FALSE),
     Plugin("hidden", "HIDDEN", TRUE, "GROUP", 0, 2, FALSE)}

\* the GroupSnapshot of the group of the event; blocked: the module is in its
\* block_plugin_set
Group(level, status, is_super, blocked) ==
    [group_id |-> "g1", present |-> TRUE, level |-> level, status |-> status,
     is_super |-> is_super, blocked |-> blocked]

\* a group whose snapshot is not in the cache
NoGroup == [Group(0, FALSE, FALSE, FALSE) EXCEPT !.present = FALSE]

\* a private chat
Private == [NoGroup EXCEPT !.group_id = None]

PolicyGroups ==
    {Private, NoGroup,
     Group(5, TRUE, FALSE, FALSE),
     Group(5, TRUE, TRUE, FALSE),
     Group(5, TRUE, FALSE, TRUE),
     Group(5, FALSE, FALSE, FALSE),
     Group(-1, TRUE, FALSE, FALSE),
     Group(-1, TRUE, TRUE, FALSE)}

\* the LevelUser rows of the user: <<global level, level in the group>>
PolicyLevels ==
    {<<NoLevel, NoLevel>>, <<1, NoLevel>>, <<5, NoLevel>>, <<NoLevel, 1>>,
     <<NoLevel, 5>>, <<1, 5>>}

\* the inputs of one evaluation:
\*   su      the user is in bot.config.superusers
\*   routed  the text of the event matches a command of the module
\*   other   what the ban, bot and limit stages find
\*   late    the call that exceeds its deadline
PolicyInputs ==
    [su : BOOLEAN, routed : BOOLEAN, plugin : PolicyPlugins,
     group : PolicyGroups, levels : PolicyLevels,
     other : {"none", "ban", "bot", "limit", "limit_ok"},
     late : {"none", "get_plugin_and_user", "get_plugin_cost", "auth_plugin"}]

\* _needs_admin_check
needs_admin_check(plugin) ==
    \/ plugin.admin_level > 0
    \/ plugin.plugin_type \in {"ADMIN", "SUPERUSER", "SUPER_AND_ADMIN"}

\* the level auth_admin compares with plugin.admin_level
user_level(global_user, group_user, group_id) ==
    LET glob == IF global_user # NoLevel THEN global_user ELSE 0
    IN  IF group_id # None /\ group_user # NoLevel THEN Max(glob, group_user)
        ELSE glob

\* an auth_admin that compares the level of every user
auth_admin_every_user(plugin, global_user, group_user, group_id) ==
    /\ plugin.admin_level # 0
    /\ user_level(global_user, group_user, group_id) < plugin.admin_level

\* auth_admin: TRUE when it raises SkipPluginException
auth_admin(plugin, global_user, group_user, group_id) ==
    /\ plugin.admin_level # 0
    /\ IF group_id # None /\ group_user # NoLevel
       THEN user_level(global_user, group_user, group_id) < plugin.admin_level
       ELSE IF global_user # NoLevel THEN global_user < plugin.admin_level
       ELSE FALSE

\* LevelUserMemoryCache.get_levels: the row of the group is read in a group
get_levels(levels, group_id) ==
    <<levels[1], IF group_id # None THEN levels[2] ELSE NoLevel>>

\* the admin steps of auth() before the ban stage:
\* [skip: SkipPluginException is raised, ran: auth_admin was called]
admin_pre(x) ==
    LET lv == get_levels(x.levels, x.group.group_id)
        superplugin == x.plugin.plugin_type \in {"SUPERUSER", "SUPER_AND_ADMIN"}
    IN  IF ~needs_admin_check(x.plugin) THEN [skip |-> FALSE, ran |-> FALSE]
        ELSE IF superplugin /\ x.su THEN [skip |-> FALSE, ran |-> FALSE]
        ELSE IF x.plugin.plugin_type = "SUPERUSER"
        THEN [skip |-> TRUE, ran |-> FALSE]
        ELSE [skip |-> auth_admin(x.plugin, lv[1], lv[2], x.group.group_id),
              ran |-> TRUE]

\* auth_cost: TRUE when it raises SkipPluginException
auth_cost(user_gold, plugin) == user_gold < plugin.cost_gold

\* a get_plugin_cost that hands the cost out before it exempts a superuser
get_plugin_cost_first(x, user_gold) ==
    IF auth_cost(user_gold, x.plugin) THEN [out |-> "skip", cost |-> 0]
    ELSE IF x.su /\ (x.plugin.plugin_type = "SUPERUSER"
                     \/ ~x.plugin.limit_superuser)
    THEN [out |-> "super", cost |-> x.plugin.cost_gold]
    ELSE [out |-> "pass", cost |-> x.plugin.cost_gold]

\* get_plugin_cost: [out: "pass", "skip" (SkipPluginException) or "super"
\* (IsSuperuserException), cost: the value returned]
get_plugin_cost(x, user_gold) ==
    IF auth_cost(user_gold, x.plugin) THEN [out |-> "skip", cost |-> 0]
    ELSE IF x.su /\ (x.plugin.plugin_type = "SUPERUSER"
                     \/ ~x.plugin.limit_superuser)
    THEN [out |-> "super", cost |-> 0]
    ELSE [out |-> "pass", cost |-> x.plugin.cost_gold]

\* the cost step of auth(): cost_gold stays 0 when get_plugin_cost is late
cost_step(x, user_gold) ==
    IF x.plugin.cost_gold > 0 /\ x.late # "get_plugin_cost"
    THEN get_plugin_cost(x, user_gold)
    ELSE [out |-> "pass", cost |-> 0]

\* an auth_group that lets every group pass
auth_group_open(plugin, group) == FALSE

\* auth_group, for a text that is not the wake command: TRUE when it raises
\* SkipPluginException
auth_group_of(plugin, group) ==
    /\ group.group_id # None
    /\ \/ ~group.present
       \/ group.level < 0
       \/ ~group.status
       \/ plugin.level > group.level

\* a _needs_auth_plugin that leaves the plugins blocked in groups out
needs_auth_plugin_no_group(plugin, group) ==
    IF plugin.block_type = "ALL" /\ ~plugin.status
    THEN ~(group.present /\ group.is_super)
    ELSE IF group.group_id # None THEN group.present /\ group.blocked
    ELSE plugin.block_type = "PRIVATE"

\* _needs_auth_plugin
needs_auth_plugin(plugin, group) ==
    IF plugin.block_type = "ALL" /\ ~plugin.status
    THEN ~(group.present /\ group.is_super)
    ELSE IF group.group_id # None
    THEN plugin.block_type = "GROUP" \/ (group.present /\ group.blocked)
    ELSE plugin.block_type = "PRIVATE"

\* PluginCheck.check_global: "pass", "skip" or "super" (IsSuperuserException)
check_global(plugin, group) ==
    IF plugin.status \/ plugin.block_type # "ALL" THEN "pass"
    ELSE IF group.present /\ group.is_super THEN "super"
    ELSE "skip"

\* auth_plugin with skip_group_block = False
auth_plugin(plugin, group) ==
    IF group.present
    THEN IF plugin.status /\ plugin.block_type # "GROUP" /\ ~group.blocked
         THEN "pass"
         ELSE IF group.blocked \/ plugin.block_type = "GROUP" THEN "skip"
         ELSE check_global(plugin, group)
    ELSE IF plugin.block_type = "PRIVATE" THEN "skip"
    ELSE check_global(plugin, group)

\* the hooks auth() gathers, in the order of their tasks: the exception of
\* the first one that raises comes out of the gather
auth_gather(x) ==
    IF x.other = "bot" THEN "skip"
    ELSE IF ~x.su /\ auth_group_of(x.plugin, x.group) THEN "skip"
    ELSE IF /\ ~x.su
            /\ needs_auth_plugin(x.plugin, x.group)
            /\ x.late # "auth_plugin"
            /\ auth_plugin(x.plugin, x.group) # "pass"
    THEN auth_plugin(x.plugin, x.group)
    ELSE IF x.other = "limit" THEN "skip"
    ELSE "pass"

\* UserConsole.reduce_gold as reduce_gold uses it: the balance is set to 0
\* on InsufficientGold
reduce_gold(user_gold, cost_gold) ==
    IF user_gold >= cost_gold THEN user_gold - cost_gold ELSE 0

\* an auth() that deducts the cost whatever ignore_flag is
auth_finish_always(v, cost_gold, user_gold, admin) ==
    [verdict |-> v, cost_gold |-> cost_gold, admin |-> admin,
     gold |-> IF cost_gold > 0 THEN reduce_gold(user_gold, cost_gold)
              ELSE user_gold]

\* the end of auth(): the cost is deducted unless ignore_flag was set
auth_finish(v, cost_gold, user_gold, admin) ==
    [verdict |-> v, cost_gold |-> cost_gold, admin |-> admin,
     gold |-> IF v # "deny" /\ cost_gold > 0
              THEN reduce_gold(user_gold, cost_gold)
              ELSE user_gold]

\* the verdict an exception of a stage stands for
VerdictOf(out) ==
    CASE out = "skip" -> "deny"
      [] out = "super" -> "exempt"
      [] OTHER -> "allow"

\* auth() from the cost step on; c is the outcome of the cost step
auth_from_cost(x, user_gold, c, admin) ==
    IF c.out # "pass" THEN auth_finish(VerdictOf(c.out), c.cost, user_gold, admin)
    ELSE auth_finish(VerdictOf(auth_gather(x)), c.cost, user_gold, admin)

\* auth() from the admin steps on; a is the outcome of admin_pre
auth_from_admin(x, user_gold, a) ==
    IF a.skip \/ x.other = "ban" THEN auth_finish("deny", 0, user_gold, a.ran)
    ELSE auth_from_cost(x, user_gold, cost_step(x, user_gold), a.ran)

\* the module has limit rules (_has_limits_cached)
has_limits(x) == x.other \in {"limit", "limit_ok"}

\* the hooks auth() makes tasks of and gathers
auth_hook_tasks(x) ==
    {"bot"}
        \cup (IF x.su THEN {} ELSE {"group"})
        \cup (IF ~x.su /\ needs_auth_plugin(x.plugin, x.group) THEN {"plugin"} ELSE {})
        \cup (IF has_limits(x) THEN {"limit"} ELSE {})

\* the stages auth() runs from the admin steps on
auth_stages_from_admin(x, user_gold, a) ==
    LET s1 == IF a.ran THEN {"admin"} ELSE {}
        s2 == s1 \cup {"ban"}
                 \cup (IF x.plugin.cost_gold > 0 THEN {"cost"} ELSE {})
    IN  IF a.skip THEN s1
        ELSE IF x.other = "ban" THEN s1 \cup {"ban"}
        ELSE IF cost_step(x, user_gold).out # "pass" THEN s2
        ELSE s2 \cup auth_hook_tasks(x)

\* the stages auth() runs for an event with a fresh event cache: "admin"
\* (auth_admin), "ban", "cost" (get_plugin_cost) and the hooks gathered
auth_stages(x, user_gold) ==
    IF x.plugin # NoPlugin /\ x.plugin.plugin_type = "HIDDEN" THEN {}
    ELSE IF ~x.routed THEN {}
    ELSE IF x.late = "get_plugin_and_user" \/ x.plugin = NoPlugin THEN {}
    ELSE auth_stages_from_admin(x, user_gold, admin_pre(x))

\* an auth() that does not look at the commands of the module
auth_of_any_text(x, user_gold) ==
    IF x.plugin # NoPlugin /\ x.plugin.plugin_type = "HIDDEN"
    THEN auth_finish("exempt", 0, user_gold, FALSE)
    ELSE IF x.late = "get_plugin_and_user" \/ x.plugin = NoPlugin
    THEN auth_finish("exempt", 0, user_gold, FALSE)
    ELSE auth_from_admin(x, user_gold, admin_pre(x))

\* auth() of an event with a fresh event cache:
\* [verdict, cost_gold, gold: the balance it leaves, admin: auth_admin ran]
auth_of(x, user_gold) ==
    IF x.plugin # NoPlugin /\ x.plugin.plugin_type = "HIDDEN"
    THEN auth_finish("exempt", 0, user_gold, FALSE)
    ELSE IF ~x.routed THEN auth_finish("allow", 0, user_gold, FALSE)
    ELSE IF x.late = "get_plugin_and_user" \/ x.plugin = NoPlugin
    THEN auth_finish("exempt", 0, user_gold, FALSE)
    ELSE auth_from_admin(x, user_gold, admin_pre(x))

NoEval == [verdict |-> None]

InitPolicy ==
    /\ gold = 0
    /\ polLast = NoEval

\* one auth(), for inputs x
PolicyEval ==
    /\ polLast = NoEval
    /\ \E x \in PolicyInputs : \E r \in {auth_of(x, gold)} :
        /\ gold' = r.gold
        /\ polLast' = [verdict |-> r.verdict, x |-> x, before |-> gold,
                       cost_gold |-> r.cost_gold, admin |-> r.admin,
                       stages |-> auth_stages(x, gold)]
        /\ UNCHANGED <<loadVars, banVars, breakerVars, gateVars, syncVars,
                       limitVars, hooksVars, memoVars, lateVars>>

\* the event cache of the event expires
PolicyEnd ==
    /\ polLast # NoEval
    /\ polLast' = NoEval
    /\ UNCHANGED <<gold, loadVars, banVars, breakerVars, gateVars, syncVars,
                   limitVars, hooksVars, memoVars, lateVars>>

\* the user gains gold
PolicyEarn ==
    /\ polLast = NoEval
    /\ gold < MaxGold
    /\ gold' = gold + 1
    /\ UNCHANGED <<polLast, loadVars, banVars, breakerVars, gateVars, syncVars,
                   limitVars, hooksVars, memoVars, lateVars>>

NextPolicy ==
    \/ PolicyEval
    \/ PolicyEnd
    \/ PolicyEarn

(***************************************************************************)
(* hooks/auth_checker.py: the hooks section of auth()                      *)
(* The evaluations of the auth workers enter the section in which the      *)
(* hooks are gathered through HOOKS_SEMAPHORE and count themselves in      *)
(* HOOKS_ACTIVE_COUNT.  The semaphore is asyncio's: a counter and a FIFO    *)
(* list of waiters; release() hands the permit to the first waiter.        *)
(***************************************************************************)
\* AUTH_HOOKS_CONCURRENCY_LIMIT as configured
HOOKS_CONCURRENCY_LIMIT == 2
\* the auth workers that evaluate concurrently
NumHookWorkers == 3
\* evaluations of one worker
MaxHookRounds == 2

HookWorkers == 1..NumHookWorkers

InitHooks ==
    /\ HOOKS_SEMAPHORE = [value |-> HOOKS_CONCURRENCY_LIMIT, waiters |-> <<>>,
                          done |-> {}]
    /\ HOOKS_ACTIVE_COUNT = 0
    /\ hookPc = [w \in HookWorkers |-> "idle"]
    /\ hookRounds = [w \in HookWorkers |-> 0]
    /\ hookWaited = [w \in HookWorkers |-> FALSE]

\* Semaphore.locked: no permit left, or somebody is waiting
sem_locked(S) == S.value = 0 \/ S.waiters # <<>>

\* the waiters whose future is not done yet, in their order
sem_pending(S) == SelectSeq(S.waiters, LAMBDA w : w \notin S.done)

\* a wake-up that sets the future of the first waiter without taking the permit
sem_wake_up_next_keep_value(S) ==
    IF sem_pending(S) = <<>> THEN S
    ELSE [S EXCEPT !.done = @ \cup {Head(sem_pending(S))}]

\* Semaphore._wake_up_next: the first waiter whose future is not done gets the
\* permit
sem_wake_up_next(S) ==
    IF sem_pending(S) = <<>> THEN S
    ELSE [S EXCEPT !.value = @ - 1, !.done = @ \cup {Head(sem_pending(S))}]

\* a release() that raises inside `with suppress(Exception)`: nothing changes
sem_release_suppressed(S) == S

\* Semaphore.release
sem_release(S) == sem_wake_up_next([S EXCEPT !.value = @ + 1])

\* Semaphore.acquire up to its first suspension: <<acquired, semaphore>>
sem_acquire(S, w) ==
    IF ~sem_locked(S) THEN <<TRUE, [S EXCEPT !.value = @ - 1]>>
    ELSE <<FALSE, [S EXCEPT !.waiters = Append(@, w)]>>

\* Semaphore.acquire after its future was set: the waiter leaves the list and
\* passes a spare permit on
sem_resume(S, w) ==
    LET S1 == [S EXCEPT !.waiters = SelectSeq(@, LAMBDA x : x # w),
                        !.done = @ \ {w}]
    IN  IF S1.value > 0 THEN sem_wake_up_next(S1) ELSE S1

\* auth: hook_tasks is not empty, `await _enter_hooks_section()` up to the
\* first suspension
HookEnter(w) ==
    /\ hookPc[w] = "idle"
    /\ hookRounds[w] < MaxHookRounds
    /\ \E r \in {sem_acquire(HOOKS_SEMAPHORE, w)} :
           /\ HOOKS_SEMAPHORE' = r[2]
           /\ HOOKS_ACTIVE_COUNT' = IF r[1] THEN HOOKS_ACTIVE_COUNT + 1
                                    ELSE HOOKS_ACTIVE_COUNT
           /\ hookPc' = [hookPc EXCEPT ![w] = IF r[1] THEN "inside" ELSE "waiting"]
    /\ UNCHANGED <<hookRounds, hookWaited, loadVars, banVars, breakerVars,
                   gateVars, syncVars, limitVars, policyVars, memoVars, lateVars>>

\* _enter_hooks_section of a waiter whose future was set: acquire() returns and
\* the counter goes up
HookResume(w) ==
    /\ hookPc[w] = "waiting"
    /\ w \in HOOKS_SEMAPHORE.done
    /\ HOOKS_SEMAPHORE' = sem_resume(HOOKS_SEMAPHORE, w)
    /\ HOOKS_ACTIVE_COUNT' = HOOKS_ACTIVE_COUNT + 1
    /\ hookPc' = [hookPc EXCEPT ![w] = "inside"]
    /\ hookWaited' = [hookWaited EXCEPT ![w] = TRUE]
    /\ UNCHANGED <<hookRounds, loadVars, banVars, breakerVars, gateVars,
                   syncVars, limitVars, policyVars, memoVars, lateVars>>

\* the outcomes of the gathered hooks: all passed, one raised
\* SkipPluginException, the gather ran out of TIMEOUT_SECONDS * 2, one raised
\* another exception
HookOutcomes == {"pass", "skip", "timeout", "error"}

\* auth: the gather ends and the finally branch runs _leave_hooks_section
HookLeave(w, outcome) ==
    /\ hookPc[w] = "inside"
    /\ HOOKS_SEMAPHORE' = sem_release(HOOKS_SEMAPHORE)
    /\ HOOKS_ACTIVE_COUNT' = Max(HOOKS_ACTIVE_COUNT - 1, 0)
    /\ hookPc' = [hookPc EXCEPT ![w] = "idle"]
    /\ hookRounds' = [hookRounds EXCEPT ![w] = @ + 1]
    /\ hookWaited' = [hookWaited EXCEPT ![w] = FALSE]
    /\ UNCHANGED <<loadVars, banVars, breakerVars, gateVars, syncVars, limitVars,
                   policyVars, memoVars, lateVars>>

NextHooks ==
    \/ \E w \in HookWorkers : HookEnter(w)
    \/ \E w \in HookWorkers : HookResume(w)
    \/ \E w \in HookWorkers, outcome \in HookOutcomes : HookLeave(w, outcome)

(***************************************************************************)
(* hooks/auth_checker.py: the memo of auth() in the event cache            *)
(* One event of user u1 in a private chat is matched by several matchers   *)
(* of the plugins in MemoModules; _auth_preprocessor queues an evaluation  *)
(* for each matcher and the auth workers run them.  The plugin costs       *)
(* MemoCost gold and has the limit rules of its module in LimitRules.      *)
(***************************************************************************)
\* the evaluations queued for one event: <<matcher, module>>
NumMatchers == 2
MemoModules == {"mcd"}
MemoEvals == (1..NumMatchers) \X MemoModules
\* plugin.cost_gold
MemoCost == 1

NoRun == [cost_gold |-> 0, limited |-> FALSE]

InitMemo ==
    /\ auth_result_cache = EmptyMap
    /\ memoPc = [w \in MemoEvals |-> "queued"]
    /\ memoRun = [w \in MemoEvals |-> NoRun]
    /\ memoOut = [w \in MemoEvals |-> None]
    /\ memoEffects = [m \in MemoModules |-> [limit |-> 0, cost |-> 0]]

\* auth, finally: auth_result_cache[module] = (auth_allowed, None)
memo_end(cache, module, auth_allowed) == MapPut(cache, module, auth_allowed)

\* auth up to the gather of a worker that took the evaluation w from the
\* queue: the memo is read; without one the cost is looked up
\* (get_plugin_cost) and the hook tasks are made.  Nothing is written to
\* auth_result_cache before the finally branch
MemoStart(w) ==
    LET module == w[2]
        cached == MapGet(auth_result_cache, module)
        poor == auth_cost(gold, [cost_gold |-> MemoCost])
        deny == IF cached # Nil THEN ~cached[1] ELSE poor
    IN  /\ memoPc[w] = "queued"
        /\ memoPc' = [memoPc EXCEPT ![w] =
               IF cached # Nil \/ poor THEN "done" ELSE "hooks"]
        /\ memoOut' = [memoOut EXCEPT ![w] =
               IF cached # Nil \/ poor THEN (IF deny THEN "deny" ELSE "allow")
               ELSE @]
        /\ memoRun' = [memoRun EXCEPT ![w] =
               IF cached = Nil /\ ~poor THEN [cost_gold |-> MemoCost,
                                              limited |-> FALSE]
               ELSE @]
        /\ auth_result_cache' =
               IF cached # Nil THEN auth_result_cache
               ELSE IF poor THEN memo_end(auth_result_cache, module, FALSE)
               ELSE auth_result_cache
        /\ limiters' = IF deny THEN auth_except(limiters, module, "u1", None, None)
                       ELSE limiters
        /\ UNCHANGED <<memoEffects, gold, polLast, limRunning, allowedAt, limLast,
                       limCalls, loadVars, banVars, breakerVars, gateVars,
                       syncVars, hooksVars, lateVars>>

\* the auth_limit task of the gather runs LimitManager.check
MemoHook(w) ==
    /\ memoPc[w] = "hooks"
    /\ \E r \in {limit_check(limiters, w[2], "u1", None, None, clock)} :
           /\ limiters' = r.lim
           /\ memoRun' = [memoRun EXCEPT ![w].limited = r.denied]
           /\ memoEffects' = [memoEffects EXCEPT ![w[2]].limit =
                                  IF r.denied THEN @ ELSE @ + 1]
    /\ memoPc' = [memoPc EXCEPT ![w] = "gathered"]
    /\ UNCHANGED <<auth_result_cache, memoOut, gold, polLast, limRunning,
                   allowedAt, limLast, limCalls, loadVars, banVars, breakerVars,
                   gateVars, syncVars, hooksVars, lateVars>>

\* auth after the gather: the except branch of a SkipPluginException, the
\* finally branch that writes the memo, and reduce_gold
MemoFinish(w) ==
    LET module == w[2]
        deny == memoRun[w].limited
    IN  /\ memoPc[w] = "gathered"
        /\ memoPc' = [memoPc EXCEPT ![w] = "done"]
        /\ memoOut' = [memoOut EXCEPT ![w] = IF deny THEN "deny" ELSE "allow"]
        /\ auth_result_cache' = memo_end(auth_result_cache, module, ~deny)
        /\ limiters' = IF deny THEN auth_except(limiters, module, "u1", None, None)
                       ELSE limiters
        /\ gold' = IF ~deny /\ memoRun[w].cost_gold > 0
                   THEN reduce_gold(gold, memoRun[w].cost_gold) ELSE gold
        /\ memoEffects' = [memoEffects EXCEPT ![module].cost =
                              IF ~deny /\ memoRun[w].cost_gold > 0 THEN @ + 1
                              ELSE @]
        /\ UNCHANGED <<memoRun, polLast, limRunning, allowedAt, limLast, limCalls,
                       loadVars, banVars, breakerVars, gateVars, syncVars,
                       hooksVars, lateVars>>

NextMemo ==
    \/ \E w \in MemoEvals : MemoStart(w)
    \/ \E w \in MemoEvals : MemoHook(w)
    \/ \E w \in MemoEvals : MemoFinish(w)
    \/ PolicyEarn
    \/ LimitTick

(***************************************************************************)
(* Specifications                                                          *)
(***************************************************************************)
(***************************************************************************)
(* services/cache/runtime_cache.py: the first load of the entity caches    *)
(*                                                                         *)
(* Every cache class has the same refresh (the rows are read and the maps  *)
(* replaced under the lock of the class), the same ensure_loaded and the   *)
(* same _refresh_loop.  _init_runtime_cache refreshes the six caches one   *)
(* after another and sets the ready barrier; a read of storage may raise.  *)
(* The callers of get and the refresh loop are those of the bot cache.     *)
(***************************************************************************)
\* callers of BotMemoryCache.get
NumGetters == 2
\* rounds of the refresh loop
MaxLoopRounds == 2
\* versions the rows of storage go through
MaxStoreVer == 1

\* the caches in the order _init_runtime_cache refreshes them
BootOrder == <<"plugin", "bot", "group", "level", "limit", "ban">>
BootCaches == Range(BootOrder)

Getters == {<<"get", i>> : i \in 1..NumGetters}
BootTasks == {<<"init", 0>>, <<"loop", 0>>} \cup Getters

\* a cache class before its first refresh: no snapshot (-1), no negative entry
ColdCache == [snap |-> -1, negative |-> FALSE, loaded |-> FALSE]

NoRefresh == [task |-> <<None, 0>>, cache |-> None, ok |-> TRUE]

InitBoot ==
    /\ bootCache = [c \in BootCaches |-> ColdCache]
    /\ bootLock = [c \in BootCaches |-> [holder |-> Nil, waiters |-> <<>>]]
    /\ bootPc = [t \in BootTasks |-> "idle"]
    /\ initIdx = 1
    /\ CACHE_READY_EVENT = FALSE
    /\ storeVer = 0
    /\ bootHist = [cold |-> 0, rounds |-> 0, last |-> NoRefresh]

\* the cache a task refreshes
CacheOf(t) == IF t[1] = "init" THEN BootOrder[Min(initIdx, Len(BootOrder))] ELSE "bot"

\* asyncio.Lock.acquire by the task t: taken at once when the lock is free and
\* nobody waits for it, else the task joins the waiters
lock_acquire(l, t) ==
    IF l.holder = Nil /\ l.waiters = <<>> THEN [l EXCEPT !.holder = Some(t)]
    ELSE [l EXCEPT !.waiters = Append(@, t)]

\* asyncio.Lock.release: the first waiter is woken
lock_release(l) == [l EXCEPT !.holder = Nil]

\* a refresh whose failure empties the negative map
refresh_result_clear(c, ok, ver) ==
    IF ok THEN [snap |-> ver, negative |-> FALSE, loaded |-> TRUE]
    ELSE [c EXCEPT !.negative = FALSE]

\* refresh, from the read of the rows on: the maps are replaced, the negative
\* map emptied and _loaded set, unless the read raises
refresh_result(c, ok, ver) ==
    IF ok THEN [snap |-> ver, negative |-> FALSE, loaded |-> TRUE]
    ELSE c

\* get, after ensure_loaded: a key that is missing is marked negative
get_lookup(c, missing) == IF missing THEN [c EXCEPT !.negative = TRUE] ELSE c

\* the task t begins refresh(): async with cls._lock
BootAcquire(t) ==
    /\ bootLock' = [bootLock EXCEPT ![CacheOf(t)] = lock_acquire(@, t)]
    /\ bootPc' = [bootPc EXCEPT ![t] =
                     IF lock_acquire(bootLock[CacheOf(t)], t).holder = Some(t)
                     THEN "reading" ELSE "waiting"]

\* _init_runtime_cache: the refresh of the next cache begins
BootInitStart ==
    /\ bootPc[<<"init", 0>>] = "idle"
    /\ initIdx <= Len(BootOrder)
    /\ BootAcquire(<<"init", 0>>)
    /\ bootHist' = [bootHist EXCEPT !.last = NoRefresh]
    /\ UNCHANGED <<bootCache, initIdx, CACHE_READY_EVENT, storeVer>>
    /\ UNCHANGED <<earlyVars, notBootVars>>

\* _init_runtime_cache, after the six refreshes: the loops are started and the
\* ready barrier is set
BootInitReady ==
    /\ bootPc[<<"init", 0>>] = "idle"
    /\ initIdx = Len(BootOrder) + 1
    /\ ~CACHE_READY_EVENT
    /\ CACHE_READY_EVENT' = TRUE
    /\ bootHist' = [bootHist EXCEPT !.last = NoRefresh]
    /\ UNCHANGED <<bootCache, bootLock, bootPc, initIdx, storeVer>>
    /\ UNCHANGED <<earlyVars, notBootVars>>

\* _refresh_loop: the interval is over and refresh() begins
BootLoopStart ==
    /\ CACHE_READY_EVENT
    /\ bootPc[<<"loop", 0>>] = "idle"
    /\ bootHist.rounds < MaxLoopRounds
    /\ BootAcquire(<<"loop", 0>>)
    /\ bootHist' = [bootHist EXCEPT !.rounds = @ + 1, !.last = NoRefresh]
    /\ UNCHANGED <<bootCache, initIdx, CACHE_READY_EVENT, storeVer>>
    /\ UNCHANGED <<earlyVars, notBootVars>>

\* get(key): on a loaded cache the key is looked up; on a cold one
\* ensure_loaded calls refresh()
BootGet(g, missing) ==
    /\ bootPc[g] = "idle"
    /\ IF bootCache["bot"].loaded
       THEN /\ bootCache' = [bootCache EXCEPT !["bot"] = get_lookup(@, missing)]
            /\ bootPc' = [bootPc EXCEPT ![g] = "done"]
            /\ UNCHANGED bootLock
       ELSE /\ BootAcquire(g)
            /\ UNCHANGED bootCache
    /\ bootHist' = [bootHist EXCEPT !.last = NoRefresh]
    /\ UNCHANGED <<initIdx, CACHE_READY_EVENT, storeVer>>
    /\ UNCHANGED <<earlyVars, notBootVars>>

\* a task that waited for the lock is given it
BootResume(t) ==
    /\ bootPc[t] = "waiting"
    /\ bootLock[CacheOf(t)].holder = Nil
    /\ Head(bootLock[CacheOf(t)].waiters) = t
    /\ bootLock' = [bootLock EXCEPT ![CacheOf(t)] =
                       [holder |-> Some(t), waiters |-> Tail(@.waiters)]]
    /\ bootPc' = [bootPc EXCEPT ![t] = "reading"]
    /\ bootHist' = [bootHist EXCEPT !.last = NoRefresh]
    /\ UNCHANGED <<bootCache, initIdx, CACHE_READY_EVENT, storeVer>>
    /\ UNCHANGED <<earlyVars, notBootVars>>

\* the read of the rows ends for the task t, which holds the lock: it returns
\* the rows (ok) or raises; the lock is released either way.  A caller of get
\* goes on to its lookup or is handed the exception, _init_runtime_cache and
\* the loop log the exception and go on
BootFinish(t, ok, missing) ==
    /\ bootPc[t] = "reading"
    /\ (t[1] # "get") => ~missing
    /\ \E c1 \in {refresh_result(bootCache[CacheOf(t)], ok, storeVer)} :
           /\ bootCache' = [bootCache EXCEPT ![CacheOf(t)] =
                               IF t[1] = "get" /\ ok THEN get_lookup(c1, missing)
                               ELSE c1]
           /\ bootHist' = [bootHist EXCEPT
                  !.cold = IF t[1] = "get" /\ ok THEN @ + 1 ELSE @,
                  !.last = [task |-> t, cache |-> CacheOf(t), ok |-> ok]]
    /\ bootLock' = [bootLock EXCEPT ![CacheOf(t)] = lock_release(@)]
    /\ bootPc' = [bootPc EXCEPT ![t] =
                     IF t[1] = "get" THEN (IF ok THEN "done" ELSE "raised")
                     ELSE "idle"]
    /\ initIdx' = IF t[1] = "init" THEN initIdx + 1 ELSE initIdx
    /\ UNCHANGED <<CACHE_READY_EVENT, storeVer>>
    /\ UNCHANGED <<earlyVars, notBootVars>>

\* rows are written to storage
BootStoreWrite ==
    /\ storeVer < MaxStoreVer
    /\ storeVer' = storeVer + 1
    /\ bootHist' = [bootHist EXCEPT !.last = NoRefresh]
    /\ UNCHANGED <<bootCache, bootLock, bootPc, initIdx, CACHE_READY_EVENT>>
    /\ UNCHANGED <<earlyVars, notBootVars>>

NextBoot ==
    \/ BootInitStart
    \/ BootInitReady
    \/ BootLoopStart
    \/ \E g \in Getters, missing \in BOOLEAN : BootGet(g, missing)
    \/ \E t \in BootTasks : BootResume(t)
    \/ \E t \in BootTasks, ok \in BOOLEAN, missing \in BOOLEAN :
           BootFinish(t, ok, missing)
    \/ BootStoreWrite

(***************************************************************************)
(* services/auth_service/service.py: users are registered in the cache at  *)
(* once and written to storage by _user_creation_loop                      *)
(***************************************************************************)
\* ids taken into one batch: one by get() and 99 by get_nowait() in the source
USER_BATCH_SIZE == 2
\* calls of ensure_user_exists
MaxEnsures == 4

UserIds == {"u1", "u2", "u3"}

\* AuthService.init has loaded the ids of the UserConsole rows: one user, uid 1
InitUsers ==
    /\ known_users = {"u0"}
    /\ user_queue = <<>>
    /\ userBatch = Nil
    /\ userDb = [u \in {"u0"} |-> 1]
    /\ userHist = [puts |-> [u \in UserIds |-> 0], calls |-> 0, largest |-> 0,
                   dropped |-> {}]

\* the first n elements of a queue
RECURSIVE TakeUpTo(_, _)
TakeUpTo(q, n) ==
    IF n = 0 \/ q = <<>> THEN <<>> ELSE <<Head(q)>> \o TakeUpTo(Tail(q), n - 1)

\* the ids of a batch in the order of its dict: that of their first insertion
RECURSIVE DictKeys(_, _)
DictKeys(q, seen) ==
    IF q = <<>> THEN <<>>
    ELSE IF Head(q) \in seen THEN DictKeys(Tail(q), seen)
    ELSE <<Head(q)>> \o DictKeys(Tail(q), seen \cup {Head(q)})

\* _user_creation_loop: the batch taken from the queue, one id by get() and
\* up to USER_BATCH_SIZE - 1 more by get_nowait()
take_batch(q) == DictKeys(TakeUpTo(q, USER_BATCH_SIZE), {})

\* the largest uid of the rows, 0 without rows
last_uid(db) == IF DOMAIN db = {} THEN 0 ELSE CHOOSE n \in Range(db) : \A k \in Range(db) : k <= n

\* _batch_insert_users: the rows afterwards.  The ids get the numbers after the
\* largest uid; bulk_create(ignore_conflicts=True) leaves a row that exists; an
\* exception is logged and the batch forgotten
batch_insert_users(db, batch, ok) ==
    IF ~ok THEN db
    ELSE [u \in DOMAIN db \cup Range(batch) |->
             IF u \in DOMAIN db THEN db[u]
             ELSE last_uid(db) + (CHOOSE i \in DOMAIN batch : batch[i] = u)]

\* ensure_user_exists(user_id)
EnsureUser(u) ==
    /\ userHist.calls < MaxEnsures
    /\ known_users' = known_users \cup {u}
    /\ user_queue' = IF u \in known_users THEN user_queue ELSE Append(user_queue, u)
    /\ userHist' = [userHist EXCEPT !.calls = @ + 1,
                                    !.puts[u] = IF u \in known_users THEN @ ELSE @ + 1]
    /\ UNCHANGED <<userBatch, userDb>>
    /\ UNCHANGED <<earlyVars, notUserVars>>

\* _user_creation_loop: the queue is not empty and a batch is taken
UserTake ==
    /\ userBatch = Nil
    /\ user_queue # <<>>
    /\ userBatch' = Some(take_batch(user_queue))
    /\ user_queue' = SubSeq(user_queue, Min(Len(user_queue), USER_BATCH_SIZE) + 1,
                            Len(user_queue))
    /\ userHist' = [userHist EXCEPT !.largest = Max(@, Len(take_batch(user_queue)))]
    /\ UNCHANGED <<known_users, userDb>>
    /\ UNCHANGED <<earlyVars, notUserVars>>

\* _batch_insert_users: the write succeeds (ok) or raises
UserInsert(ok) ==
    /\ userBatch # Nil
    /\ userDb' = batch_insert_users(userDb, userBatch[1], ok)
    /\ userBatch' = Nil
    /\ userHist' = [userHist EXCEPT !.dropped =
                       IF ok THEN @ ELSE @ \cup (Range(userBatch[1]) \ DOMAIN userDb)]
    /\ UNCHANGED <<known_users, user_queue>>
    /\ UNCHANGED <<earlyVars, notUserVars>>

NextUsers ==
    \/ \E u \in UserIds : EnsureUser(u)
    \/ UserTake
    \/ \E ok \in BOOLEAN : UserInsert(ok)

(***************************************************************************)
(* services/auth_service: the ban state AuthStateCache keeps, written by   *)
(* the post_save and post_delete signals of BanConsole and by              *)
(* AuthService.init                                                        *)
(***************************************************************************)
\* rows saved or deleted
MaxStateSaves == 3

InitState ==
    /\ banned_users = EmptyMap
    /\ banned_groups = EmptyMap
    /\ stateRows = EmptyMap
    /\ stateSaves = 0

\* on_ban_save / AuthService.init: expire_time of a row
expire_time(row) == IF row.duration = -1 THEN -1 ELSE row.ban_time + row.duration

\* a signal that files a row under its user only when it names no group, and
\* under its group only when it names no user
ban_save_exact(bu, bg, row) ==
    [users |-> IF Truthy(row.user_id) /\ ~Truthy(row.group_id)
               THEN MapPut(bu, row.user_id, expire_time(row)) ELSE bu,
     groups |-> IF Truthy(row.group_id) /\ ~Truthy(row.user_id)
                THEN MapPut(bg, row.group_id, expire_time(row)) ELSE bg]

\* on_ban_save, and the loop over the rows in AuthService.init: set_user_ban
\* for the user of the row and set_group_ban for its group
ban_save(bu, bg, row) ==
    [users |-> IF Truthy(row.user_id)
               THEN MapPut(bu, row.user_id, expire_time(row)) ELSE bu,
     groups |-> IF Truthy(row.group_id)
                THEN MapPut(bg, row.group_id, expire_time(row)) ELSE bg]

\* on_ban_delete
ban_delete(bu, bg, row) ==
    [users |-> IF Truthy(row.user_id) THEN MapPop(bu, row.user_id) ELSE bu,
     groups |-> IF Truthy(row.group_id) THEN MapPop(bg, row.group_id) ELSE bg]

\* AuthService.init: the rows are gone through in the order rows
RECURSIVE init_bans(_, _, _)
init_bans(bu, bg, rows) ==
    IF rows = <<>> THEN [users |-> bu, groups |-> bg]
    ELSE LET r == ban_save(bu, bg, Head(rows))
         IN  init_bans(r.users, r.groups, Tail(rows))

\* AuthService.is_user_banned / is_group_banned on the map of expire times
is_state_banned(bans, id, now) ==
    IF id \notin DOMAIN bans THEN FALSE
    ELSE IF bans[id] = -1 THEN TRUE
    ELSE ~(now > bans[id] * TicksPerSec)

\* the orders BanConsole.all() may return a set of rows in
RowOrders(rows) ==
    {q \in UNION {[1..n -> Range(rows)] : n \in {Cardinality(DOMAIN rows)}} :
        \A k \in DOMAIN rows : \E i \in DOMAIN q : q[i] = rows[k]}

\* a BanConsole row is saved and post_save calls on_ban_save
StateBanSave(k, dur) ==
    LET row == [user_id |-> k[1], group_id |-> k[2],
                ban_time |-> clock \div TicksPerSec, duration |-> dur]
    IN  /\ stateSaves < MaxStateSaves
        /\ stateSaves' = stateSaves + 1
        /\ stateRows' = MapPut(stateRows, k, row)
        /\ banned_users' = ban_save(banned_users, banned_groups, row).users
        /\ banned_groups' = ban_save(banned_users, banned_groups, row).groups
        /\ UNCHANGED <<earlyVars, notStateVars>>

\* a BanConsole row is deleted and post_delete calls on_ban_delete
StateBanDelete(k) ==
    /\ k \in DOMAIN stateRows
    /\ stateSaves < MaxStateSaves
    /\ stateSaves' = stateSaves + 1
    /\ stateRows' = MapPop(stateRows, k)
    /\ banned_users' = ban_delete(banned_users, banned_groups, stateRows[k]).users
    /\ banned_groups' = ban_delete(banned_users, banned_groups, stateRows[k]).groups
    /\ UNCHANGED <<earlyVars, notStateVars>>

\* the process is started again: AuthService.init fills the empty cache from
\* the rows
StateInit ==
    /\ stateRows # EmptyMap
    /\ \E q \in RowOrders(stateRows) :
           /\ banned_users' = init_bans(EmptyMap, EmptyMap, q).users
           /\ banned_groups' = init_bans(EmptyMap, EmptyMap, q).groups
    /\ UNCHANGED <<stateRows, stateSaves, earlyVars, notStateVars>>

NextState ==
    \/ TickClock
    \/ \E k \in BanKeys, dur \in BanDurations : StateBanSave(k, dur)
    \/ \E k \in BanKeys : StateBanDelete(k)
    \/ StateInit

(***************************************************************************)
(* Replication between processes: services/cache/runtime_cache.py          *)
(* Two processes on one channel.  A local mutation changes the cache of    *)
(* its process and publishes an event; _listen_loop hands every message of *)
(* the channel to _handle_message, which drops the process's own messages  *)
(* and applies the others through apply_sync_event of the cache named.     *)
(* The plugin-limit cache is kept with both its indexes and refreshed from *)
(* its storage; the storage of the other caches holds no row.              *)
(***************************************************************************)
\* publish_event calls of one run
MaxEchoSent == 2

\* the processes connected to the channel
EchoProcs == {"A", "B"}
\* an instance outside the model that asks for refreshes
EchoPeer == "X"

NoEcho == [op |-> "none", sent |-> 0]

InitEcho ==
    /\ echoCaches = [p \in EchoProcs |-> [snap |-> EmptySnapshots,
                                          ban |-> EmptyBanCache]]
    /\ channel = [p \in EchoProcs |-> <<>>]
    /\ limitDb = EmptyMap
    /\ echoSent = 0
    /\ echoLast = NoEcho

\* redis publish: every subscriber, the publisher included, is sent the
\* messages
channel_publish(boxes, msgs) == [q \in DOMAIN boxes |-> boxes[q] \o msgs]

\* the message publish_event makes of an event of process src
sync_message(src, cache_type, action, data) ==
    [source |-> INSTANCE_ID(src), type |-> cache_type, action |-> action,
     data |-> data]

\* BotMemoryCache.remove: <<cache, the data of the events published>>
bot_remove(c, bot_id) ==
    IF normalize_id(bot_id) = None THEN <<c, <<>>>>
    ELSE <<[c EXCEPT !.by_id = MapPop(@, normalize_id(bot_id))],
           <<[bot_id |-> normalize_id(bot_id)]>>>>

\* GroupMemoryCache.remove
group_remove(c, group_id, channel_id) ==
    LET key == group_key(group_id, channel_id)
    IN  IF key = Nil THEN <<c, <<>>>>
        ELSE <<[c EXCEPT !.by_key = MapPop(@, key[1])],
               <<[group_id |-> key[1][1],
                  channel_id |-> IF key[1][2] = "" THEN None ELSE key[1][2]]>>>>

\* LevelUserMemoryCache.remove
level_remove(c, user_id, group_id) ==
    LET key == level_key(user_id, group_id)
    IN  IF key = Nil THEN <<c, <<>>>>
        ELSE <<[c EXCEPT !.by_key = MapPop(@, key[1])],
               <<[user_id |-> key[1][1],
                  group_id |-> IF key[1][2] = "" THEN None ELSE key[1][2]]>>>>

\* PluginLimitMemoryCache.remove_by_id
limit_remove_by_id(c, limit_id) ==
    IF limit_id = 0 THEN <<c, <<>>>>
    ELSE <<IF limit_id \in DOMAIN c.by_id
           THEN [c EXCEPT !.by_id = MapPop(@, limit_id),
                          !.by_module = MapPut(@, c.by_id[limit_id].module,
                              limits_without(@, c.by_id[limit_id].module,
                                             limit_id))]
           ELSE c,
           <<[id |-> limit_id]>>>>

\* the ids of S in ascending order
RECURSIVE IdsInOrder(_)
IdsInOrder(S) ==
    IF S = {} THEN <<>>
    ELSE LET lo == CHOOSE i \in S : \A j \in S : i <= j
         IN  <<lo>> \o IdsInOrder(S \ {lo})

\* PluginLimitSnapshot.from_model
limit_from_model(record) ==
    [id |-> record.id, module |-> record.module, status |-> record.status]

\* PluginLimitMemoryCache.refresh: the rows with status true, filed by id and
\* by module
limit_refresh(c, db) ==
    LET ids == {i \in DOMAIN db : db[i].status}
        mods == {db[i].module : i \in ids}
    IN  [by_id |-> [i \in ids |-> limit_from_model(db[i])],
         by_module |-> [m \in mods |->
             LET q == IdsInOrder({i \in ids : db[i].module = m})
             IN  [n \in 1..Len(q) |-> limit_from_model(db[q[n]])]],
         negative |-> EmptyMap,
         loaded |-> TRUE]

\* apply_sync_event of the cache named by cache_type, on the caches C of one
\* process: <<caches, the data of the delete events it publishes>>
apply_sync_event(C, cache_type, action, data, db) ==
    IF action = "upsert"
    THEN IF cache_type = "ban"
         THEN <<[C EXCEPT !.ban = ban_upsert_from_payload(@, data)], <<>>>>
         ELSE <<[C EXCEPT !.snap = snapshots_upsert(@, cache_type, data)], <<>>>>
    ELSE IF action = "refresh"
    THEN IF cache_type = "ban"
         THEN <<[C EXCEPT !.ban = ban_refresh(@, EmptyMap, 0)], <<>>>>
         ELSE IF cache_type = "plugin_limit"
         THEN <<[C EXCEPT !.snap.plugin_limit = limit_refresh(@, db)], <<>>>>
         ELSE <<[C EXCEPT !.snap[cache_type] = snapshot_refresh(@)], <<>>>>
    ELSE IF action # "delete" THEN <<C, <<>>>>
    ELSE IF cache_type = "ban"
    THEN <<[C EXCEPT !.ban = remove_local(@, data.user_id, data.group_id)], <<>>>>
    ELSE IF cache_type = "bot"
    THEN \* apply_sync_event calls remove, which publishes
         LET r == bot_remove(C.snap.bot, data.bot_id)
         IN  <<[C EXCEPT !.snap.bot = r[1]], r[2]>>
    ELSE IF cache_type = "group"
    THEN LET r == group_remove(C.snap.group, data.group_id, data.channel_id)
         IN  <<[C EXCEPT !.snap.group = r[1]], r[2]>>
    ELSE IF cache_type = "level"
    THEN LET r == level_remove(C.snap.level, data.user_id, data.group_id)
         IN  <<[C EXCEPT !.snap.level = r[1]], r[2]>>
    ELSE LET r == limit_remove_by_id(C.snap.plugin_limit, data.id)
         IN  <<[C EXCEPT !.snap.plugin_limit = r[1]], r[2]>>

\* the events a process sends for what it has changed, per cache
EchoPayloads(type) ==
    CASE type = "ban" -> ban_to_payload(BanEntry("u1", None, 5, 0, -1))
      [] type = "bot" -> [bot_id |-> "b1", status |-> TRUE]
      [] type = "group" -> [group_id |-> "g1", channel_id |-> None,
                            status |-> TRUE, level |-> 5]
      [] type = "level" -> [user_id |-> "u1", group_id |-> "g1",
                            user_level |-> 5]
      [] type = "plugin_limit" -> [id |-> 1, module |-> "m1", status |-> TRUE]

\* the PluginLimit rows a process saves: rule 1 under either module, switched
\* on or off, and rule 2 of module m1
LimitPayloads ==
    [id : {1}, module : {"m1", "m2"}, status : BOOLEAN]
        \cup {[id |-> 2, module |-> "m1", status |-> TRUE]}

\* the step of process p that publishes the events msgs
EchoPublish(p, op, msgs) ==
    /\ channel' = channel_publish(channel, msgs)
    /\ echoSent' = echoSent + Len(msgs)
    /\ echoLast' = [op |-> op, sent |-> Len(msgs)]

\* a row is saved by process p and the post-save hook calls upsert_from_model:
\* the cache takes the entry and the event is published
EchoUpsert(p, type, data) ==
    /\ echoSent < MaxEchoSent
    /\ echoCaches' = [echoCaches EXCEPT ![p] =
           apply_sync_event(@, type, "upsert", data, limitDb)[1]]
    /\ limitDb' = IF type = "plugin_limit" THEN MapPut(limitDb, data.id, data)
                  ELSE limitDb
    /\ EchoPublish(p, "local", <<sync_message(p, type, "upsert", data)>>)
    /\ UNCHANGED <<earlyVars, notEchoVars>>

\* a row is deleted by process p and the post-delete hook calls remove /
\* remove_by_id of the cache
EchoRemove(p, type, data) ==
    /\ echoSent < MaxEchoSent
    /\ limitDb' = IF type = "plugin_limit" THEN MapPop(limitDb, data.id)
                  ELSE limitDb
    /\ \E r \in {apply_sync_event(echoCaches[p], type, "delete", data, limitDb)} :
           /\ echoCaches' = [echoCaches EXCEPT ![p] = r[1]]
           /\ EchoPublish(p, "local",
                  <<sync_message(p, type, "delete",
                        IF type = "ban"
                        THEN [user_id |-> data.user_id, group_id |-> data.group_id]
                        ELSE IF type = "plugin_limit" THEN [id |-> data.id]
                        ELSE r[2][1])>>)
    /\ UNCHANGED <<earlyVars, notEchoVars>>

\* PluginLimitMemoryCache._refresh_loop of process p: refresh()
EchoRefresh(p) ==
    /\ echoCaches' = [echoCaches EXCEPT ![p].snap.plugin_limit =
                          limit_refresh(@, limitDb)]
    /\ echoLast' = NoEcho
    /\ UNCHANGED <<channel, limitDb, echoSent, earlyVars, notEchoVars>>

\* an instance outside asks every process to refresh one of its caches
EchoAskRefresh(type) ==
    /\ echoSent < MaxEchoSent
    /\ EchoPublish(EchoPeer, "none",
                   <<sync_message(EchoPeer, type, "refresh", <<>>)>>)
    /\ UNCHANGED <<echoCaches, limitDb, earlyVars, notEchoVars>>

\* RuntimeCacheSync._listen_loop of process p: the next message of the channel
\* goes through _handle_message
EchoDeliver(p) ==
    /\ channel[p] # <<>>
    /\ \E msg \in {Head(channel[p])} :
           IF msg.source = INSTANCE_ID(p)
           THEN /\ channel' = [channel EXCEPT ![p] = Tail(@)]
                /\ echoLast' = NoEcho
                /\ UNCHANGED <<echoCaches, echoSent>>
           ELSE \E r \in {apply_sync_event(echoCaches[p], msg.type, msg.action,
                                           msg.data, limitDb)} :
                    /\ echoSent + Len(r[2]) <= MaxEchoSent
                    /\ echoCaches' = [echoCaches EXCEPT ![p] = r[1]]
                    /\ channel' = channel_publish(
                           [channel EXCEPT ![p] = Tail(@)],
                           [n \in 1..Len(r[2]) |->
                               sync_message(p, msg.type, "delete", r[2][n])])
                    /\ echoSent' = echoSent + Len(r[2])
                    /\ echoLast' = [op |-> "apply", sent |-> Len(r[2])]
    /\ UNCHANGED <<limitDb, earlyVars, notEchoVars>>

NextEcho ==
    \/ \E p \in EchoProcs, type \in SyncTypes :
           EchoUpsert(p, type, EchoPayloads(type))
    \/ \E p \in EchoProcs, type \in SyncTypes :
           EchoRemove(p, type, EchoPayloads(type))
    \/ \E type \in SyncTypes : EchoAskRefresh(type)
    \/ \E p \in EchoProcs : EchoDeliver(p)

\* the plugin-limit cache alone, with every row a save may write
NextIndex ==
    \/ \E p \in EchoProcs, data \in LimitPayloads :
           EchoUpsert(p, "plugin_limit", data)
    \/ \E p \in EchoProcs, id \in {1, 2} :
           EchoRemove(p, "plugin_limit", [id |-> id])
    \/ \E p \in EchoProcs : EchoRefresh(p)
    \/ EchoAskRefresh("plugin_limit")
    \/ \E p \in EchoProcs : EchoDeliver(p)

vars == <<loadVars, banVars, breakerVars, gateVars, syncVars, limitVars, policyVars, hooksVars, memoVars, lateVars>>

Init ==
    /\ InitLoad
    /\ InitBan
    /\ InitBreaker
    /\ InitGate
    /\ InitSync
    /\ InitLimit
    /\ InitPolicy
    /\ InitHooks
    /\ InitMemo
    /\ InitBoot
    /\ InitUsers
    /\ InitState
    /\ InitEcho

NextLoad ==
    \/ TickMono
    \/ \E d \in Durations : SignalOverload(d)

SpecLoad == Init /\ [][NextLoad]_vars

SpecBan == Init /\ [][NextBan]_vars

\* the loops of a running process keep running: _refresh_loop refreshes after
\* every interval, _listen_loop handles the messages that arrived and the
\* removal tasks created by reads are run by the event loop
SpecBanFair ==
    /\ Init /\ [][NextBan]_vars
    /\ \A p \in Procs : WF_vars(BanRefresh(p))
    /\ \A p \in Procs : WF_vars(BanDeliver(p))
    /\ \A p \in Procs : WF_vars(\E k \in BanKeys : BanRemoveTask(p, k))

\* the gather of an evaluation inside the section ends (it is given
\* TIMEOUT_SECONDS * 2 at most) and the event loop runs a task whose future is
\* set
SpecHooks ==
    /\ Init /\ [][NextHooks]_vars
    /\ \A w \in HookWorkers : WF_vars(\E outcome \in HookOutcomes : HookLeave(w, outcome))
    /\ \A w \in HookWorkers : WF_vars(HookResume(w))

SpecMemo == Init /\ [][NextMemo]_vars

SpecBoot == Init /\ [][NextBoot]_vars

SpecUsers == Init /\ [][NextUsers]_vars

SpecState == Init /\ [][NextState]_vars

SpecEcho == Init /\ [][NextEcho]_vars

SpecIndex == Init /\ [][NextIndex]_vars

\* the consumer task keeps running: it takes what is queued and ends every
\* insert it has begun
SpecUsersFair ==
    /\ Init /\ [][NextUsers]_vars
    /\ WF_vars(UserTake)
    /\ WF_vars(\E ok \in BOOLEAN : UserInsert(ok))

SpecBreaker == Init /\ [][NextBreaker]_vars

SpecGate == Init /\ [][NextGate]_vars

SpecSync == Init /\ [][NextSync]_vars

SpecLimit == Init /\ [][NextLimit]_vars

SpecPolicy == Init /\ [][NextPolicy]_vars

(***************************************************************************)
(* Properties of the ban cache                                             *)
(***************************************************************************)
\* the record a cache holds under the key k itself, as Some(record) or Nil
RecordAt(c, k) ==
    IF k[1] # None /\ k[2] # None THEN MapGet(c.by_user_group, k)
    ELSE IF k[1] # None THEN MapGet(c.by_user, k[1])
    ELSE MapGet(c.by_group, k[2])

\* now > ban_time + duration of a record that is not permanent
PastExpiry(e, now) ==
    e.duration # -1 /\ now > (e.ban_time + e.duration) * TicksPerSec

\* C2: for every cached ban record with duration # -1, once
\* now > ban_time + duration, is_banned and remaining_time for its key answer
\* false and 0; in a loaded cache the read creates the removal task for that
\* key, and after the removal the record is in none of the cache maps.
C2_ExpiredBanReadsNotBanned ==
    \A p \in Procs, k \in BanKeys :
        LET c == banCache[p]
            e == RecordAt(c, k)
            b == is_banned(c, k[1], k[2], clock)
            t == remaining_time(c, k[1], k[2], clock)
        IN  (e # Nil /\ PastExpiry(e[1], clock)) =>
                /\ b.ret = FALSE
                /\ t.ret = 0
                /\ c.loaded =>
                     /\ b.remove = Some(k)
                     /\ t.remove = Some(k)
                     /\ RecordAt(remove_local(c, k[1], k[2]), k) = Nil

\* C2 witness: a loaded cache still holds a record past its expiry, and a read
\* has created the removal task for it
C2_Witness ==
    \E p \in Procs, k \in BanKeys :
        /\ banCache[p].loaded
        /\ RecordAt(banCache[p], k) # Nil
        /\ PastExpiry(RecordAt(banCache[p], k)[1], clock)
        /\ k \in removeTasks[p]

\* C3: when a loaded cache holds both a user-only ban of U and a (U, G) ban,
\* remaining_time(U, G) is answered from the (U, G) record and returns that
\* record's remaining time.
C3_UserGroupRecordDecides ==
    \A p \in Procs, k \in BanKeys :
        LET c == banCache[p]
            t == remaining_time(c, k[1], k[2], clock)
        IN  (/\ c.loaded
             /\ k[1] # None /\ k[2] # None
             /\ k \in DOMAIN c.by_user_group
             /\ k[1] \in DOMAIN c.by_user) =>
                /\ t.entry = Some(c.by_user_group[k])
                /\ t.ret = remaining(c.by_user_group[k], clock)

\* C3 witness: both records are cached and their remaining times differ
C3_Witness ==
    \E p \in Procs, k \in BanKeys :
        LET c == banCache[p]
        IN  /\ c.loaded
            /\ k[1] # None /\ k[2] # None
            /\ k \in DOMAIN c.by_user_group
            /\ k[1] \in DOMAIN c.by_user
            /\ remaining(c.by_user_group[k], clock)
                  # remaining(c.by_user[k[1]], clock)

\* the process p has just handled an upsert published by another process for
\* the key k, its cache is loaded and the record has time left on p's clock
DeliveredUpsert(p, k) ==
    /\ last.op = "upsert" /\ last.proc = p /\ last.key = k
    /\ banCache[p].loaded
    /\ RecordAt(banCache[p], k) # Nil
    /\ remaining(RecordAt(banCache[p], k)[1], clock) # 0

C8_OverloadWindow ==
    /\ OVERLOAD_UNTIL = sigMax
    /\ is_overloaded(OVERLOAD_UNTIL, mono) <=> mono < sigMax
    /\ (/\ sigLast.at >= 0
        /\ sigLast.at + sigLast.duration = sigMax
        /\ mono >= sigLast.at + sigLast.duration) =>
            ~is_overloaded(OVERLOAD_UNTIL, mono)

\* C8 witness: after a window was in force, a later signal asked for an earlier
\* deadline, that shorter window has elapsed and the flag is still set
C8_Witness ==
    /\ sigLast.at >= 0
    /\ sigLast.at + sigLast.duration < sigMax
    /\ mono >= sigLast.at + sigLast.duration
    /\ is_overloaded(OVERLOAD_UNTIL, mono)
(***************************************************************************)
(* Properties of the circuit breakers                                      *)
(***************************************************************************)
\* the number of calls of stage s now running that were started after the
\* cool-down
ProbesRunning(s) ==
    Cardinality({c \in (0..MaxWall) \X (1..MaxCalls) :
                    AfterCooldown(trail[s], c[1]) /\ c[2] <= running[s][c[1]]})

\* C4: once a stage has timed out threshold times its breaker is open, and
\* until CIRCUIT_RESET_TIME has passed since then every time_hook call of the
\* stage is skipped: the stage is not started, and the call returns normally.
C4_OpenBreakerSkips ==
    \A s \in Stages :
        LET h == trail[s]
            br == CIRCUIT_BREAKERS[s]
        IN  InCooldown(h, wall) =>
                /\ br.active
                /\ br.reset_time = h.thirdAt[1] + CIRCUIT_RESET_TIME
                /\ check_circuit_breaker(br, wall) = <<TRUE, br>>
                /\ h.inCooldown \subseteq {"skip"}

\* C4 witness: a call was made during the cool-down, at its very last moment
C4_Witness ==
    \E s \in Stages :
        /\ InCooldown(trail[s], wall)
        /\ wall = trail[s].thirdAt[1] + CIRCUIT_RESET_TIME
        /\ trail[s].inCooldown = {"skip"}

\* C5 as claimed: after the cool-down at most one call of the stage is let
\* through until a call started after the cool-down has ended.
C5_ExactlyOneProbe ==
    \A s \in Stages :
        ~trail[s].probeDone => ProbesRunning(s) <= 1

\* C5 amended: once the cool-down is over the first time_hook call of the stage
\* closes the breaker and sets its failure count to 0; a closed breaker has
\* fewer than threshold failures; and every call made after the cool-down is
\* admitted as long as fewer than threshold timeouts have happened since.
C5_CooldownResetsBreaker ==
    \A s \in Stages :
        LET h == trail[s]
            br == CIRCUIT_BREAKERS[s]
        IN  /\ (br.active /\ wall > br.reset_time) =>
                  check_circuit_breaker(br, wall) =
                      <<FALSE, [br EXCEPT !.active = FALSE, !.failures = 0]>>
            /\ ~br.active => br.failures < threshold
            /\ h.postKinds \subseteq {"admit"}

\* C5 witness: two calls admitted after the cool-down are running at once
C5_Witness ==
    \E s \in Stages :
        /\ ~trail[s].probeDone
        /\ ProbesRunning(s) >= 2
        /\ trail[s].postKinds = {"admit"}

\* C6 as claimed: whenever a breaker is opened, the last threshold calls of the
\* stage that ended all timed out.
C6_OnlyConsecutiveTimeoutsOpen ==
    \A s \in Stages :
        trail[s].openStreak # Nil => trail[s].openStreak[1] >= threshold

(***************************************************************************)
(* Claims: the gate in front of the handlers                               *)
(***************************************************************************)

\* C1 as claimed: a handler never runs for a pair (event, module) whose auth()
\* ended in Deny.
C1_DenyStopsHandler ==
    \A t \in Pairs : verdict[t] = "deny" => pc[t] # "ran"

\* C16: when the full evaluation of a pair raises an unexpected exception, the
\* event is treated as denied: the handler of the pair is not run.
C16_ErrorStopsHandler ==
    \A t \in Pairs : verdict[t] = "error" => pc[t] # "ran"

\* the pair found the queue holding AUTH_QUEUE_MAXSIZE items at its put_nowait
FoundQueueFull(t) == qlenAt[t] >= AUTH_QUEUE_MAXSIZE

\* C7: a pair that arrives while the deferred queue holds AUTH_QUEUE_MAXSIZE
\* items is not enqueued and no auth() is ever run for it, the queue never
\* holds more than AUTH_QUEUE_MAXSIZE items, and is_overloaded() is true at
\* every moment of the AUTH_OVERLOAD_WINDOW that follows the drop.
C7_FullQueueDrops ==
    /\ Len(AUTH_QUEUE) <= AUTH_QUEUE_MAXSIZE
    /\ \A t \in Pairs :
           FoundQueueFull(t) =>
               /\ t \notin Range(AUTH_QUEUE)
               /\ \A w \in 1..worker_count : worker[w] # Some(t)
               /\ verdict[t] = "none"
               /\ dropAt[t] >= 0
               /\ mono < dropAt[t] + AUTH_OVERLOAD_WINDOW =>
                      is_overloaded(OVERLOAD_UNTIL, mono)

\* C7 witness: the handler of a dropped pair has run and the window that the
\* drop opened is at its last moment
C7_Witness ==
    \E t \in Pairs :
        /\ FoundQueueFull(t)
        /\ pc[t] = "ran"
        /\ mono = dropAt[t] + AUTH_OVERLOAD_WINDOW - 1
        /\ is_overloaded(OVERLOAD_UNTIL, mono)

(***************************************************************************)
(* Claims: replicated upserts                                              *)
(***************************************************************************)

\* the caches once the message handled last has been handled again, now as a
\* message of the instance src
HandledAgain(src) ==
    handle_upsert_message(Self, banCache[Self], snapshots,
                          [lastSync[1] EXCEPT !.source = INSTANCE_ID(src)],
                          banDb, clock)

\* C9: once an upsert message has been handled by the ban, bot, group, level
\* or plugin-limit cache, handling the same payload again, whether it comes
\* from the same instance or from another one, leaves every snapshot map and
\* every negative map as it is.
C9_UpsertTwiceIsOnce ==
    lastSync # Nil =>
        \A src \in SyncSources : HandledAgain(src) = <<banCache[Self], snapshots>>

\* C9 witness: the plugin-limit upsert handled last moved a limit from one
\* module to another one that already held a limit
C9_Witness ==
    /\ lastSync # Nil
    /\ lastSync[1].type = "plugin_limit"
    /\ lastSync[1].data.status
    /\ \E m \in DOMAIN snapshots.plugin_limit.by_module :
           snapshots.plugin_limit.by_module[m] = <<>>
    /\ Len(snapshots.plugin_limit.by_module[lastSync[1].data.module]) = 2

(***************************************************************************)
(* Claims: negative entries                                                *)
(***************************************************************************)

\* C11: the reads of a key that find it missing from a loaded cache, from the
\* first of them until its negative TTL has run out, make at most one storage
\* read between them, however many they are.
C11_OneFallbackPerWindow ==
    \A t \in SyncTypes : getHist[t].first >= 0 => getHist[t].reads <= 1

\* C11 witness: a key of the bot or group cache was read and found missing
\* three times within one negative TTL window, which is still open
C11_Witness ==
    \E t \in {"bot", "group"} :
        /\ getHist[t].gets = 3
        /\ clock > getHist[t].first
        /\ clock < getHist[t].first + NegativeTicks(t)
        /\ SyncKey(t).key \in DOMAIN snapshots[t].negative

(***************************************************************************)
(* Claims: rate limits                                                     *)
(***************************************************************************)

\* the last evaluation ran the cooldown rule of its module
CooldownCall ==
    /\ limLast.ran
    /\ limLast.module \in DOMAIN Limits.cd_limit

BlockCall ==
    /\ limLast.ran
    /\ limLast.module \in DOMAIN Limits.block_limit

\* C17: from the moment a block rule lets an invocation of a key pass until the
\* post-dispatch hook releases the key, the rule rejects every other
\* invocation of the key; a rejected invocation does not release the block.
C17_BlockHeldUntilReleased ==
    (BlockCall /\ limLast.heldBefore > 0) => limLast.limited

(***************************************************************************)
(* Claims: permanent bans                                                  *)
(***************************************************************************)

\* the record a cache holds under exactly the key k
ExactEntry(c, k) ==
    IF k[1] # None /\ k[2] # None THEN MapGet(c.by_user_group, k)
    ELSE IF k[1] # None THEN MapGet(c.by_user, k[1])
    ELSE MapGet(c.by_group, k[2])

\* the cache holds a record of duration -1 under the key k
PermanentAt(c, k) ==
    /\ ExactEntry(c, k) # Nil
    /\ ExactEntry(c, k)[1].duration = -1

\* the reads of a record of duration -1
C15_Reads ==
    \A p \in Procs, k \in BanKeys :
        PermanentAt(banCache[p], k) =>
            /\ remaining(ExactEntry(banCache[p], k)[1], clock) = -1
            /\ ~ban_expired(ExactEntry(banCache[p], k)[1], clock)
            /\ banCache[p].loaded =>
                   /\ remaining_time(banCache[p], k[1], k[2], clock).ret = -1
                   /\ is_banned(banCache[p], k[1], k[2], clock).ret
                   /\ is_banned(banCache[p], k[1], k[2], clock).remove = Nil

\* a record of duration -1 leaves the cache of p only when remove() is run for
\* its key, a message for its key is handled, a row is saved under its key,
\* or a refresh finds that storage holds no row of duration -1 under its key
C15_Step ==
    \A p \in Procs, k \in BanKeys :
        (PermanentAt(banCache[p], k) /\ ~PermanentAt(banCache'[p], k)) =>
            \/ k \in removeTasks[p] /\ k \notin removeTasks'[p]
            \/ inbox[p] # <<>> /\ inbox'[p] = Tail(inbox[p])
                  /\ <<Head(inbox[p]).data.user_id,
                       Head(inbox[p]).data.group_id>> = k
            \/ saves' = saves + 1 /\ k \in DOMAIN banDb' /\ banDb'[k].duration # -1
            \/ /\ last'.op # "cleanup"
               /\ banDb' = banDb
               /\ k \notin DOMAIN banDb \/ banDb[k].duration # -1

Evaluated == polLast # NoEval

\* the event of the last evaluation came from a blacklisted group
Blacklisted ==
    /\ Evaluated
    /\ polLast.x.group.present
    /\ polLast.x.group.level < 0

\* the last evaluation reached the hooks of a known plugin: the text matched
\* a command of the module, the plugin has a row, is not hidden and was
\* fetched within the deadline
ReachedStages ==
    /\ Evaluated
    /\ polLast.x.routed
    /\ polLast.x.plugin # NoPlugin
    /\ polLast.x.plugin.plugin_type # "HIDDEN"
    /\ polLast.x.late # "get_plugin_and_user"

\* C13 as claimed: when the group of the event has a level below 0, the
\* evaluation of any module ends in Deny, whatever the plugin and the user.
C13_BlacklistedAlwaysDenied ==
    Blacklisted => polLast.verdict = "deny"

\* C13: when the group of the event has a level below 0, the evaluation ends in
\* Deny for every user who is not a superuser and every plugin that has a row
\* and is not hidden, once the text matched a command of the module and the
\* plugin was fetched within the deadline.
C13_BlacklistedDenied ==
    (Blacklisted /\ ReachedStages /\ ~polLast.x.su) => polLast.verdict = "deny"

\* C13 witness: an ordinary user of a trusted, blacklisted group is denied a
\* plugin that no other stage objects to
C13_Witness ==
    /\ Blacklisted
    /\ ReachedStages
    /\ ~polLast.x.su
    /\ polLast.x.group.is_super
    /\ polLast.x.plugin.module = "free"
    /\ polLast.x.other = "none"
    /\ polLast.verdict = "deny"

\* the plugin of the last evaluation is blocked in groups and the event came
\* from a group that is not trusted
BlockedInGroups ==
    /\ Evaluated
    /\ polLast.x.plugin # NoPlugin
    /\ polLast.x.plugin.block_type = "GROUP"
    /\ polLast.x.group.present
    /\ ~polLast.x.group.is_super

C18_DenyKeepsGold ==
    Evaluated =>
        /\ polLast.verdict = "deny" => gold = polLast.before
        /\ gold # polLast.before =>
               /\ polLast.verdict = "allow"
               /\ auth_gather(polLast.x) = "pass"
               /\ gold = polLast.before - polLast.x.plugin.cost_gold

\* C18 witness: a hook denies an evaluation whose cost step had passed, with
\* the user able to pay
C18_Witness ==
    /\ Evaluated
    /\ polLast.verdict = "deny"
    /\ polLast.cost_gold > 0
    /\ polLast.before >= polLast.cost_gold
    /\ gold = polLast.before

\* the last evaluation let the event of a trusted group pass for a plugin
\* that is switched off for everyone
TrustedGroupBypass ==
    /\ Evaluated
    /\ polLast.verdict # "deny"
    /\ ReachedStages
    /\ polLast.x.plugin.block_type = "ALL"
    /\ ~polLast.x.plugin.status
    /\ polLast.x.group.present
    /\ polLast.x.group.is_super

\* C19 as claimed: no cost is deducted when the evaluation ends in Exempt,
\* the bypass of a trusted group for a globally disabled plugin included.
C19_ExemptAndTrustedFree ==
    (Evaluated /\ (polLast.verdict = "exempt" \/ TrustedGroupBypass))
        => gold = polLast.before

\* C19: no cost is deducted when the evaluation ends in Exempt (superuser
\* bypass, hidden plugin, missing module, plugin lookup past its deadline); the
\* bypass of a trusted group for a globally disabled plugin is an Allow, not an
\* Exempt, and an ordinary user pays the cost.
C19_ExemptIsFree ==
    /\ (Evaluated /\ polLast.verdict = "exempt") => gold = polLast.before
    /\ (TrustedGroupBypass /\ ~polLast.x.su) =>
           /\ polLast.verdict = "allow"
           /\ gold = polLast.before - polLast.cost_gold

\* C19 witness: a superuser who could pay is exempted from a plugin with a
\* cost
C19_Witness ==
    /\ Evaluated
    /\ polLast.verdict = "exempt"
    /\ ReachedStages
    /\ polLast.x.su
    /\ polLast.x.plugin.cost_gold > 0
    /\ polLast.before >= polLast.x.plugin.cost_gold

(***************************************************************************)
(* Claims: the admin stage                                                 *)
(***************************************************************************)

\* C20: when the admin stage runs with a required level above 0, the level of
\* the user is the larger of the global level and the level in the group, a
\* missing row counting as 0, and the evaluation ends in Deny whenever that
\* level is below the required one.
C20_BelowLevelDenied ==
    (/\ Evaluated
     /\ polLast.admin
     /\ polLast.x.plugin.admin_level > 0
     /\ user_level(polLast.x.levels[1],
                   get_levels(polLast.x.levels, polLast.x.group.group_id)[2],
                   polLast.x.group.group_id) < polLast.x.plugin.admin_level)
        => polLast.verdict = "deny"

(***************************************************************************)
(* Claims: messages of the own instance                                    *)
(***************************************************************************)

\* the step in which process p handles a message it published itself
OwnMessageHandled(p) ==
    /\ inbox[p] # <<>>
    /\ Head(inbox[p]).source = INSTANCE_ID(p)
    /\ inbox'[p] = Tail(inbox[p])
    /\ last'.op = "own_message"

\* C21: a message whose source is the INSTANCE_ID of the process that receives
\* it is ignored: handling it changes none of the maps of the cache, the
\* negative map included, and makes no refresh from storage.
C21_OwnMessageIgnored ==
    [][\A p \in Procs :
          OwnMessageHandled(p) =>
              /\ banCache'[p] = banCache[p]
              /\ last'.reads = 0
              /\ banDb' = banDb]_vars

\* C21 witness: the process has just handled its own message for a key under
\* which its cache holds no record by now, so applying the message would have
\* changed the cache (an upsert) or it was the delete of a removal
C21_Witness ==
    \E p \in Procs :
        /\ last.op = "own_message"
        /\ last.proc = p
        /\ banCache[p].loaded
        /\ RecordAt(banCache[p], last.key) = Nil
        /\ last.key \in DOMAIN banDb

(***************************************************************************)
(* Claims: upsert and the negative entries                                 *)
(***************************************************************************)

\* no record of a loaded cache is hidden from the reads of a key by a negative
\* entry of that key that has not expired
NoHiddenRecord ==
    \A p \in Procs, k \in BanKeys :
        get_entry(banCache[p], k[1], k[2]) # Nil =>
            ~ban_is_negative(banCache[p], neg_key(k[1], k[2]), clock)[1]

\* the read of the key of the row that upsert_from_model has just stored is
\* answered from the new record: banned unless no time of the ban is left
UpsertIsRead ==
    \A p \in Procs :
        (last.op = "model_upsert" /\ last.proc = p /\ banCache[p].loaded) =>
            /\ RecordAt(banCache[p], last.key) = Some(build_entry(banDb[last.key]))
            /\ is_banned(banCache[p], last.key[1], last.key[2], clock).entry
                   = RecordAt(banCache[p], last.key)
            /\ is_banned(banCache[p], last.key[1], last.key[2], clock).ret
                   = (remaining(build_entry(banDb[last.key]), clock) # 0)

\* C22: an upsert replaces the snapshot of key K and clears K's negative entry
\* in one step: right after upsert(record) a read of K is answered from the new
\* snapshot even if K had an unexpired negative entry, and in no state is a
\* stored snapshot hidden by a still valid negative entry of its key.
C22_UpsertClearsNegative == NoHiddenRecord /\ UpsertIsRead

\* C22 witness: upsert_from_model has just stored the row of a key that had an
\* unexpired negative entry in the loaded cache
C22_Witness ==
    \E p \in Procs :
        /\ last.op = "model_upsert"
        /\ last.proc = p
        /\ last.hadNeg
        /\ banCache[p].loaded
        /\ RecordAt(banCache[p], last.key) # Nil

(***************************************************************************)
(* Claims: convergence by the periodic refresh                             *)
(***************************************************************************)

\* the record storage holds under the key k, as the cache would build it
StoredAt(k) == IF k \in DOMAIN banDb THEN Some(build_entry(banDb[k])) ELSE Nil

\* a record the reads no longer count as a ban
Lapsed(e, now) == e.duration # -1 /\ remaining(e, now) = 0

\* the cache of p holds under k what storage holds under k; a row whose time
\* is over may be missing from the cache
Agrees(p, k) ==
    \/ RecordAt(banCache[p], k) = StoredAt(k)
    \/ /\ RecordAt(banCache[p], k) = Nil
       /\ StoredAt(k) # Nil
       /\ Lapsed(StoredAt(k)[1], clock)

Converged == \A p \in Procs, k \in BanKeys : Agrees(p, k)

\* right after refresh() the cache is loaded and holds exactly the rows of
\* storage that have not expired
FreshAfterRefresh ==
    \A p \in Procs :
        (last.op = "refresh" /\ last.proc = p) =>
            /\ banCache[p].loaded
            /\ \A k \in BanKeys :
                   RecordAt(banCache[p], k) =
                       IF k \in LiveRows(banDb, clock) THEN StoredAt(k) ELSE Nil
            /\ \A k \in BanKeys : Agrees(p, k)

HooksInside == {w \in HookWorkers : hookPc[w] = "inside"}

\* the counter counts the evaluations inside, and they are at most the limit
HooksBounded ==
    /\ HOOKS_ACTIVE_COUNT = Cardinality(HooksInside)
    /\ HOOKS_ACTIVE_COUNT <= HOOKS_CONCURRENCY_LIMIT
    /\ HOOKS_SEMAPHORE.value >= 0

\* an evaluation that waits stays waiting or goes inside
HooksNoReject ==
    \A w \in HookWorkers :
        hookPc[w] = "waiting" => hookPc'[w] \in {"waiting", "inside"}

C25_RemovalDeletesRow ==
    \A p \in Procs :
        (last.op = "remove" /\ last.proc = p) =>
            /\ RecordAt(banCache[p], last.key) = Nil
            /\ StoredAt(last.key) # Nil => ~Lapsed(StoredAt(last.key)[1], clock)

(***************************************************************************)
(* Claims: the route check                                                 *)
(***************************************************************************)

\* the module declares commands and the text of the event matches none
RouteMiss ==
    /\ Evaluated
    /\ ~polLast.x.routed
    /\ ~(polLast.x.plugin # NoPlugin /\ polLast.x.plugin.plugin_type = "HIDDEN")

MemoDone == {w \in MemoEvals : memoPc[w] = "done"}

\* C27: within the processing of one event every evaluation of the same
\* (event, module) pair ends with the same outcome, and the side effects of
\* the stages (cooldown start, count increment, block flag, cost deduction)
\* happen at most once per pair.
C27_VerdictMemoised ==
    /\ \A v, w \in MemoDone : v[2] = w[2] => memoOut[v] = memoOut[w]
    /\ \A m \in MemoModules : memoEffects[m].limit <= 1 /\ memoEffects[m].cost <= 1
(***************************************************************************)
(* Claims: the scope and the kinds of the limit rules                      *)
(***************************************************************************)

\* the watch scope of a rule matches a call made in the group g (None: a
\* private call)
scope_matches(limit, g) ==
    \/ limit.watch_type = "ALL"
    \/ Truthy(g) /\ limit.watch_type = "GROUP"
    \/ ~Truthy(g) /\ limit.watch_type = "USER"

\* C28: a rule is enforced only for calls its watch scope matches: a call made
\* outside any group is never rejected by a GROUP rule and a call made in a
\* group never by a USER rule, while an ALL rule may reject both.
C28_ScopeFiltersRule ==
    (limLast.ran /\ limLast.limited) =>
        scope_matches(RuleOf(limLast.module), limLast.caller[2])

\* the last step was an evaluation that a stage other than the limit stage
\* ended in Deny, the limit rule itself having nothing against the call
DeniedByOtherStage ==
    /\ limLast'.deny
    /\ ~limLast'.limited

\* C29: the first Deny ends the evaluation: an evaluation that the bot, group,
\* admin or plugin-block stage denies does not run the limit stage, and no
\* cooldown is started and no counter incremented by it.
C29_DenySparesLimits ==
    [][DeniedByOtherStage =>
           /\ ~limLast'.ran
           /\ limiters'.next_time = limiters.next_time
           /\ limiters'.count = limiters.count]_vars

\* the active rules of a module, the first of each kind
RulesOf(m) ==
    {LimitRules[i] : i \in
        {j \in DOMAIN LimitRules :
            /\ LimitRules[j].module = m
            /\ LimitRules[j].limit_type = "COUNT" => LimitRules[j].max_count > 0
            /\ \A h \in 1..(j - 1) :
                   ~(/\ LimitRules[h].module = m
                     /\ LimitRules[h].limit_type = LimitRules[j].limit_type)}}

\* the limiter of a rule has taken note of a call of the key k: the cooldown
\* is started, the block set or the call counted
limiter_holds(lim, limit, k) ==
    CASE limit.limit_type = "CD" -> k \in DOMAIN lim.next_time
      [] limit.limit_type = "BLOCK" -> k \in lim.flag_data
      [] OTHER -> k \in DOMAIN lim.count

\* C30: a limit check consults the active rule of each kind its module has:
\* a call that the check lets pass has started the cooldown, set the block
\* and been counted, whichever of these rules the module has.
C30_EveryKindEnforced ==
    (limLast.ran /\ ~limLast.deny) =>
        \A limit \in RulesOf(limLast.module) :
            limiter_holds(limiters, limit,
                          <<limit.module,
                            key_type(limit, limLast.caller[1], limLast.caller[2],
                                     limLast.caller[3])>>)

(***************************************************************************)
(* Claims: a user ban next to an expired ban of the user in one group      *)
(***************************************************************************)

\* the loaded cache of process p holds a user-only ban of u that has not run
\* out: remaining() is not 0
UserBanLive(p, u) ==
    /\ banCache[p].loaded
    /\ u \in DOMAIN banCache[p].by_user
    /\ remaining(banCache[p].by_user[u], clock) # 0

\* C35: a user with a user-only ban that has not run out is reported as
\* banned by is_banned(U, G) and remaining_time(U, G) for every group G, on
\* every call, whatever (U, G) record the cache still holds.
C35_UserBanCoversGroups ==
    \A p \in Procs, k \in BanKeys :
        (k[1] # None /\ k[2] # None /\ UserBanLive(p, k[1])) =>
            /\ is_banned(banCache[p], k[1], k[2], clock).ret
            /\ remaining_time(banCache[p], k[1], k[2], clock).ret # 0

(***************************************************************************)
(* Claims: the first load of the caches                                    *)
(***************************************************************************)

\* C31: callers of get on a cold cache wait for the load, and the rows are
\* loaded for them once, however many callers there are: a caller that has
\* its answer saw the cache loaded, and the loads made on behalf of callers
\* of get are never more than one.
C31_ColdLoadOnce ==
    /\ \A g \in Getters : bootPc[g] = "done" => bootCache["bot"].loaded
    /\ bootHist.cold <= 1

\* the step is the end of a refresh whose read of the rows raised
RefreshFailed == ~bootHist'.last.ok

\* C33: a refresh whose read of storage raises leaves the snapshot, the
\* negative map and the loaded flag of its cache as they were and releases
\* the lock, and the refresh loop is back at its sleep, from where it
\* refreshes again after the next interval.
C33_FailedRefreshHarmless ==
    [][RefreshFailed =>
           /\ bootCache'[bootHist'.last.cache] = bootCache[bootHist'.last.cache]
           /\ bootLock'[bootHist'.last.cache].holder = Nil
           /\ bootHist'.last.task[1] = "loop" => bootPc'[bootHist'.last.task] = "idle"]_vars

\* C33 witness: a refresh of the loop has just failed on a loaded cache that
\* holds a negative entry and a snapshot older than the rows of storage
C33_Witness ==
    /\ ~bootHist.last.ok
    /\ bootHist.last.task[1] = "loop"
    /\ bootCache["bot"].loaded
    /\ bootCache["bot"].negative
    /\ bootCache["bot"].snap # storeVer
    /\ bootHist.rounds < MaxLoopRounds

\* C36: once the ready barrier is set every entity cache has completed a
\* load, so that no ban check is answered from a ban cache that was never
\* loaded.
C36_ReadyMeansLoaded ==
    CACHE_READY_EVENT => \A c \in BootCaches : bootCache[c].loaded

(***************************************************************************)
(* Claims: users registered in the background                              *)
(***************************************************************************)

\* an id is put on the queue once at most, a batch never has more than
\* USER_BATCH_SIZE ids and no two rows have the same uid
UsersOrderly ==
    /\ \A u \in UserIds : userHist.puts[u] <= 1
    /\ \A u \in UserIds : u \in known_users => userHist.puts[u] = 1
    /\ userHist.largest <= USER_BATCH_SIZE
    /\ \A u, v \in DOMAIN userDb : userDb[u] = userDb[v] => u = v

\* C32: an id that is not yet known is marked known and queued once, the
\* consumer takes at most USER_BATCH_SIZE ids per batch and numbers their rows
\* apart, and every id marked known gets its row in the end.
C32_KnownUsersCreated ==
    /\ []UsersOrderly
    /\ \A u \in UserIds : (u \in known_users) ~> (u \in DOMAIN userDb)

(***************************************************************************)
(* Claims: the ban state of AuthStateCache                                 *)
(***************************************************************************)

\* storage holds a row under the key k that has not run out
LiveRow(k) ==
    /\ k \in DOMAIN stateRows
    /\ \/ stateRows[k].duration = -1
       \/ ~(clock > expire_time(stateRows[k]) * TicksPerSec)

\* C37: a ban row that names a user and a group bans the user in that group
\* only: a group is banned as a whole only by a row that names no user, and
\* a user is banned everywhere only by a row that names no group.
C37_PairBanStaysLocal ==
    /\ \A k \in BanKeys :
           (k[2] # None /\ is_state_banned(banned_groups, k[2], clock))
               => LiveRow(<<None, k[2]>>)
    /\ \A k \in BanKeys :
           (k[1] # None /\ is_state_banned(banned_users, k[1], clock))
               => LiveRow(<<k[1], None>>)

(***************************************************************************)
(* Claims: the cost of a plugin and the superusers                         *)
(***************************************************************************)

\* the last evaluation is that of a superuser for a plugin that has a cost
\* and does not limit superusers
SuperuserOfCostly ==
    /\ Evaluated
    /\ polLast.x.su
    /\ polLast.x.plugin # NoPlugin
    /\ polLast.x.plugin.cost_gold > 0
    /\ ~polLast.x.plugin.limit_superuser

\* the last evaluation ended in Deny at the cost step: get_plugin_cost was
\* the last stage it ran
DeniedAtCost ==
    /\ polLast.verdict = "deny"
    /\ "cost" \in polLast.stages
    /\ polLast.stages \subseteq {"admin", "ban", "cost"}

\* C38: the evaluation of a superuser for a plugin that has a cost and does
\* not limit superusers never ends in Deny at the cost step, whatever the
\* balance of the superuser.
C38_SuperuserNeverShort ==
    SuperuserOfCostly => ~DeniedAtCost

(***************************************************************************)
(* Claims: the permits of the hooks section                                *)
(***************************************************************************)

\* the waiters whose future release() has set: the permit is theirs already
HooksHanded == {w \in HookWorkers : w \in HOOKS_SEMAPHORE.done}

\* every permit is free, held by an evaluation inside or handed to a waiter
HooksPermitsKept ==
    HOOKS_SEMAPHORE.value + Cardinality(HooksInside) + Cardinality(HooksHanded)
        = HOOKS_CONCURRENCY_LIMIT

\* no evaluation is in progress: none waits and none is inside
HooksQuiet == \A w \in HookWorkers : hookPc[w] = "idle"

\* C39: every permit acquired by _enter_hooks_section is released exactly
\* once on every exit path of auth: no permit is lost or made at any time,
\* and whenever no evaluation is in progress the semaphore holds all
\* HOOKS_CONCURRENCY_LIMIT permits and HOOKS_ACTIVE_COUNT is 0.
C39_PermitsReturned ==
    /\ HooksPermitsKept
    /\ HooksQuiet => /\ HOOKS_SEMAPHORE.value = HOOKS_CONCURRENCY_LIMIT
                     /\ HOOKS_SEMAPHORE.waiters = <<>>
                     /\ HOOKS_ACTIVE_COUNT = 0

\* C39 witness: every worker has finished all its evaluations, and nothing
\* is in progress
C39_Witness ==
    /\ HooksQuiet
    /\ \A w \in HookWorkers : hookRounds[w] = MaxHookRounds

(***************************************************************************)
(* Claims: replication events and the indexes of the plugin-limit cache    *)
(***************************************************************************)

\* C34: a process that applies a received replication event (upsert, delete
\* or refresh) of the bot, group, level, plugin-limit or ban cache publishes
\* no replication event in response.
C34_ApplyPublishesNothing ==
    echoLast.op = "apply" => echoLast.sent = 0

\* the two indexes of a plugin-limit cache agree: the entries filed under a
\* module are those of _by_id with that module, each once, and none has
\* status false
IndexesAgree(c) ==
    /\ \A i \in DOMAIN c.by_id :
           /\ c.by_id[i].id = i
           /\ c.by_id[i].status
           /\ c.by_id[i].module \in DOMAIN c.by_module
           /\ Cardinality({n \in DOMAIN c.by_module[c.by_id[i].module] :
                  c.by_module[c.by_id[i].module][n].id = i}) = 1
    /\ \A m \in DOMAIN c.by_module :
           \A n \in DOMAIN c.by_module[m] :
               /\ c.by_module[m][n].id \in DOMAIN c.by_id
               /\ c.by_module[m][n] = c.by_id[c.by_module[m][n].id]
               /\ c.by_module[m][n].module = m

\* C40: after any sequence of refresh, upsert (local or replicated) and
\* remove_by_id on PluginLimitMemoryCache the two indexes agree: _by_module[m]
\* holds exactly the entries of _by_id whose module is m, each id once across
\* all modules, and no rule with status false is in either index.
C40_IndexesAgree ==
    \A p \in EchoProcs : IndexesAgree(echoCaches[p].snap.plugin_limit)

\* C40 witness: a cache that holds a rule under a module has an emptied list
\* for another module (a rule was moved, switched off or removed), after a
\* replicated event was applied
C40_Witness ==
    \E p \in EchoProcs :
        /\ echoLast.op = "apply"
        /\ echoCaches[p].snap.plugin_limit.by_id # EmptyMap
        /\ \E m \in DOMAIN echoCaches[p].snap.plugin_limit.by_module :
               echoCaches[p].snap.plugin_limit.by_module[m] = <<>>

====
